---- MODULE Spec2Model ----
\* A model of the vost storage and concurrency engine (C++ port of gitstore):
\* tree rebuilder, commit / compare-and-swap engine, undo / redo over the
\* reflog, the batch accumulator and the notes sub-store.
EXTENDS Integers, Sequences, FiniteSets, TLC

\* ---------------------------------------------------------------------------
\* Bounds of the model
\* ---------------------------------------------------------------------------

\* Largest number of commit objects the object store may hold.
MaxCommits == 3
\* Largest number of entries a reflog may hold.
MaxReflog == 4
\* Largest commit timestamp (seconds) a writer's clock may show.
MaxTime == 0
\* Largest number of reflog entries in the undo / redo specification.
MaxHistory == 5
\* Largest step count given to undo and redo.
MaxSteps == 2
\* Largest number of staging calls made on one batch.
MaxCalls == 3
\* Largest number of commit objects in the backup / restore specification.
MaxMirrorCommits == 2
\* Largest number of reflog entries in the specification of repeated redo.
MaxRedoLog == 7

\* ---------------------------------------------------------------------------
\* Program constants
\* ---------------------------------------------------------------------------

MODE_BLOB == 33188
MODE_LINK == 40960
MODE_TREE == 16384

\* ---------------------------------------------------------------------------
\* Universe of names, paths and blob contents
\* ---------------------------------------------------------------------------

Names == {"d", "f", "g"}
Values == {1, 2}
\* Normalized paths, already split into segments.
Paths == {<<"f">>, <<"d">>, <<"d", "f">>, <<"d", "g">>}

\* ---------------------------------------------------------------------------
\* Trees: a tree maps every name to an entry; subtrees are nested by content
\* (a content-addressed id is determined by the content it names).
\* ---------------------------------------------------------------------------

NoEntry == [mode |-> 0, data |-> 0, sub |-> <<>>]
BlobEntry(d, m) == [mode |-> m, data |-> d, sub |-> <<>>]
EmptyTree == [n \in Names |-> NoEntry]
TreeEntry(t) == [mode |-> MODE_TREE, data |-> 0, sub |-> t]

\* entry_at_path: walk the segments; every non-final segment must be a tree.
RECURSIVE entry_at_path(_, _)
entry_at_path(t, segs) ==
    IF segs = <<>> THEN TreeEntry(t)
    ELSE LET e == t[Head(segs)] IN
         IF e.mode = 0 THEN NoEntry
         ELSE IF Len(segs) = 1 THEN e
         ELSE IF e.mode # MODE_TREE THEN NoEntry
         ELSE entry_at_path(e.sub, Tail(segs))

lookup(t, segs) == entry_at_path(t, segs)

\* read_blob: the bytes at a path, or the error raised.
read_blob(t, segs) ==
    LET e == entry_at_path(t, segs) IN
    IF e.mode = 0 THEN "NotFoundError"
    ELSE IF e.mode = MODE_TREE THEN "IsADirectoryError"
    ELSE ToString(e.data)

\* ---------------------------------------------------------------------------
\* Tree rebuilder
\* ---------------------------------------------------------------------------

\* matches_prefix: the path is strictly longer than the prefix and starts with it.
matches_prefix(segs, prefix) ==
    /\ Len(segs) > Len(prefix)
    /\ \A i \in 1..Len(prefix) : segs[i] = prefix[i]

\* A builder that starts every subdirectory from the empty tree.
SubtreeOf_empty(builder, name) == EmptyTree

\* The subtree the builder currently holds under a name, or the empty
\* (all-zero) base when the name is absent or not a tree.
SubtreeOf(builder, name) ==
    IF builder[name].mode = MODE_TREE THEN builder[name].sub ELSE EmptyTree

\* The loop over the pending writes: leaf writes are collected into `inserts`
\* (a later write to the same name overwrites an earlier one), deeper writes
\* record the subtree to recurse into, read from the builder.
RECURSIVE WritesLoop(_, _, _, _, _)
WritesLoop(pending, i, prefix, builder, acc) ==
    IF i > Len(pending) THEN acc
    ELSE LET pw == pending[i]
             depth == Len(prefix)
             name == pw.segs[depth + 1]
         IN IF ~matches_prefix(pw.segs, prefix)
            THEN WritesLoop(pending, i + 1, prefix, builder, acc)
            ELSE IF Len(pw.segs) = depth + 1
            THEN WritesLoop(pending, i + 1, prefix, builder,
                   [acc EXCEPT !.inserts[name] = BlobEntry(pw.data, pw.mode)])
            ELSE IF acc.has[name]
            THEN WritesLoop(pending, i + 1, prefix, builder, acc)
            ELSE WritesLoop(pending, i + 1, prefix, builder,
                   [acc EXCEPT !.has[name] = TRUE,
                               !.subtree_writes[name] = SubtreeOf(builder, name)])

\* The loop over the removes: a remove at this level is issued against the
\* builder at once; a deeper remove records the subtree to recurse into, read
\* from the builder as it is at that moment.
RECURSIVE RemovesLoop(_, _, _, _)
RemovesLoop(remove_segs, i, prefix, st) ==
    IF i > Len(remove_segs) THEN st
    ELSE LET rv == remove_segs[i]
             depth == Len(prefix)
             name == rv[depth + 1]
         IN IF ~matches_prefix(rv, prefix)
            THEN RemovesLoop(remove_segs, i + 1, prefix, st)
            ELSE IF Len(rv) = depth + 1
            THEN RemovesLoop(remove_segs, i + 1, prefix,
                   [st EXCEPT !.builder[name] = NoEntry])
            ELSE IF st.has[name]
            THEN RemovesLoop(remove_segs, i + 1, prefix, st)
            ELSE RemovesLoop(remove_segs, i + 1, prefix,
                   [st EXCEPT !.has[name] = TRUE,
                              !.subtree_writes[name] = SubtreeOf(st.builder, name)])

\* rebuild: one level of the recursive tree builder.
RECURSIVE rebuild(_, _, _, _)
rebuild(cur, prefix, pending, remove_segs) ==
    LET acc0 == [inserts |-> [n \in Names |-> NoEntry],
                 has |-> [n \in Names |-> FALSE],
                 subtree_writes |-> [n \in Names |-> EmptyTree]]
        acc1 == WritesLoop(pending, 1, prefix, cur, acc0)
        st == RemovesLoop(remove_segs, 1, prefix,
                [builder |-> cur, has |-> acc1.has,
                 subtree_writes |-> acc1.subtree_writes])
        withSubs == [n \in Names |->
                        IF st.has[n]
                        THEN TreeEntry(rebuild(st.subtree_writes[n],
                                               Append(prefix, n),
                                               pending, remove_segs))
                        ELSE st.builder[n]]
    IN [n \in Names |->
          IF acc1.inserts[n].mode # 0 THEN acc1.inserts[n] ELSE withSubs[n]]

\* A rebuild that applies the writes and forgets the removes.
rebuild_tree_keeps_removed(base_tree, writes, removes) ==
    rebuild(base_tree, <<>>, writes, <<>>)

\* rebuild_tree: writes is a sequence of [segs, data, mode], removes a
\* sequence of segment sequences.
rebuild_tree(base_tree, writes, removes) ==
    rebuild(base_tree, <<>>, writes, removes)

\* ---------------------------------------------------------------------------
\* Object store: content-addressed, write-once. An object id is the position
\* of the object in the store; writing content that is already stored yields
\* the id it already has.
\* ---------------------------------------------------------------------------

IndexOf(store, x) ==
    IF \E i \in 1..Len(store) : store[i] = x
    THEN CHOOSE i \in 1..Len(store) : store[i] = x
    ELSE 0

\* git_treebuilder_write / git_commit_create: add the object unless present.
PutObject(store, x) ==
    IF IndexOf(store, x) # 0 THEN store ELSE Append(store, x)

\* A write_commit that drops the parent: every commit is a root commit.
write_commit_orphan(tree_oid, parent_oid_hex, message, time) ==
    [tree |-> tree_oid, parents |-> <<>>, message |-> message, time |-> time]

\* write_commit: the commit object created for (tree, parent, message, time);
\* the parent list is empty when the parent id is empty (0).
write_commit(tree_oid, parent_oid_hex, message, time) ==
    [tree |-> tree_oid,
     parents |-> IF parent_oid_hex = 0 THEN <<>> ELSE <<parent_oid_hex>>,
     message |-> message,
     time |-> time]

\* ---------------------------------------------------------------------------
\* State
\* ---------------------------------------------------------------------------

Writers == {"w1", "w2"}
BranchRef == "refs/heads/main"
NotesRef == "refs/notes/commits"
TagRef == "refs/tags/v1"
DevRef == "refs/heads/dev"
RefNames == {BranchRef, NotesRef, TagRef, DevRef}

VARIABLES
    trees,      \* object store: root trees, id = position
    commits,    \* object store: commits, id = position
    refs,       \* reference name -> commit id, 0 when the reference is absent
    reflog,     \* reference name -> entries, most recent first
    lock,       \* holder of <repo>/vost.lock, "none" when free
    pc,         \* writer -> position in the operation it is running
    snap,       \* writer -> the snapshot (Fs) the caller holds
    op,         \* writer -> locals of the running operation
    res,        \* writer -> outcome of the last finished operation
    batch,      \* writer -> the Batch object the caller holds
    hist,       \* writer -> observations recorded for the properties
    mirror,     \* the other end of backup / restore, and the last MirrorDiff
    ret,        \* caller -> the last call whose returned value is recorded
    retry       \* caller -> the retry_write loop the caller is running

vars == <<trees, commits, refs, reflog, lock, pc, snap, op, res, batch, hist,
         mirror, ret, retry>>

NoFs == [commit |-> 0, tree |-> 0, ref_name |-> "", writable |-> FALSE]
Fs(c, t, r, w) == [commit |-> c, tree |-> t, ref_name |-> r, writable |-> w]

NoOp == [kind |-> "none", fs |-> NoFs, writes |-> <<>>, removes |-> <<>>,
         message |-> <<"", "">>, n |-> 0, target |-> 0,
         base_tree |-> 0, new_tree |-> 0, new_commit |-> 0]
NoRes == [status |-> "none", fs |-> NoFs, call |-> "none"]
NoBatch == [exists |-> FALSE, fs_ |-> NoFs, writes_ |-> <<>>, removes_ |-> <<>>,
            closed_ |-> FALSE,
            last |-> [p \in Paths |-> "none"], ncalls |-> 0, engine_calls |-> 0]
NoUndo == [valid |-> FALSE, n |-> 0, from |-> 0, to |-> 0]
NoRedo == [seen |-> FALSE, undone |-> 0, n |-> 0, from |-> 0,
           status |-> "none", commit |-> 0, tip |-> 0]
NoNote == [done |-> FALSE, writes |-> <<>>, deletes |-> <<>>]
NoHist == [undo |-> NoUndo, redo |-> NoRedo, note |-> NoNote]

\* RefMap of a repository without references, and a MirrorDiff without changes.
NoRefs == [r \in RefNames |-> 0]
NoDiff == [add |-> {}, update |-> {}, del |-> {}]
\* dest: the references of the bare repository at the other end; bundle: the
\* reference table of the bundle file (no reference: no file); diff: the
\* MirrorDiff returned last.
NoMirror == [dest |-> NoRefs, bundle |-> NoRefs, diff |-> NoDiff]

\* No read-only call made yet; no retry_write loop running.
NoRet == [call |-> "none", args |-> <<>>, value |-> <<>>]
NoRetry == [active |-> FALSE, attempt |-> 0, calls |-> 0, slept |-> <<>>,
            status |-> "none"]

W(p, v) == [segs |-> p, data |-> v, mode |-> MODE_BLOB]

\* tree_oid_for_commit
tree_oid_for_commit(c) == commits[c].tree

\* read_commit(...).parent_oid_hex: the first parent, empty (0) if none.
parent_oid(c) == IF commits[c].parents = <<>> THEN 0 ELSE commits[c].parents[1]

\* Fs::read on a snapshot, against a given tree store.
FsRead(store, fs, p) ==
    IF fs.tree = 0 THEN "NotFoundError" ELSE read_blob(store[fs.tree], p)

\* Number of operations in flight that may still add a commit / a reflog entry.
InFlight == Cardinality({w \in Writers : pc[w] # "idle"})
MayCommit == Len(commits) + InFlight < MaxCommits
MayLog == Len(reflog[BranchRef]) + InFlight < MaxReflog
Budget == MayCommit /\ MayLog

Finish(w, status, fs, call) ==
    /\ res' = [res EXCEPT ![w] = [status |-> status, fs |-> fs, call |-> call]]
    /\ pc' = [pc EXCEPT ![w] = "idle"]
    /\ op' = [op EXCEPT ![w] = NoOp]

\* ---------------------------------------------------------------------------
\* Initial state: GitStore::open(create = true, branch = "main")
\* ---------------------------------------------------------------------------

InitRepo ==
    /\ trees = <<EmptyTree>>
    /\ commits = <<write_commit(1, 0, <<"Initialize", "main">>, 0)>>
    /\ refs = [r \in RefNames |-> IF r = BranchRef THEN 1 ELSE 0]
    /\ reflog = [r \in RefNames |->
                   IF r = BranchRef
                   THEN <<[old |-> 0, new |-> 1,
                           message |-> <<"commit (initial):", "Initialize main">>]>>
                   ELSE <<>>]
    /\ lock = "none"

InitLocals ==
    /\ pc = [w \in Writers |-> "idle"]
    /\ op = [w \in Writers |-> NoOp]
    /\ res = [w \in Writers |-> NoRes]
    /\ batch = [w \in Writers |-> NoBatch]
    /\ hist = [w \in Writers |-> NoHist]
    /\ mirror = NoMirror
    /\ ret = [w \in Writers |-> NoRet]
    /\ retry = [w \in Writers |-> NoRetry]

Init ==
    /\ InitRepo
    /\ InitLocals
    /\ snap = [w \in Writers |-> NoFs]

\* ---------------------------------------------------------------------------
\* Snapshots
\* ---------------------------------------------------------------------------

\* RefDict::get("main") on branches(): a writable snapshot of the branch tip.
Get(w) ==
    /\ pc[w] = "idle"
    /\ refs[BranchRef] # 0
    /\ snap[w] # Fs(refs[BranchRef], tree_oid_for_commit(refs[BranchRef]), "main", TRUE)
    /\ snap' = [snap EXCEPT ![w] =
                  Fs(refs[BranchRef], tree_oid_for_commit(refs[BranchRef]), "main", TRUE)]
    /\ UNCHANGED <<trees, commits, refs, reflog, lock, pc, op, res, batch, hist, mirror, ret, retry>>

\* The caller keeps the snapshot an operation returned (snap = snap.write(...)).
Adopt(w) ==
    /\ pc[w] = "idle"
    /\ res[w].status = "ok"
    /\ res[w].fs # snap[w]
    /\ snap' = [snap EXCEPT ![w] = res[w].fs]
    /\ UNCHANGED <<trees, commits, refs, reflog, lock, pc, op, res, batch, hist, mirror, ret, retry>>

\* ---------------------------------------------------------------------------
\* Commit engine: Fs::commit_changes
\* ---------------------------------------------------------------------------

\* A writable check that looks at the ref name only.
require_writable_named(fs) == fs.ref_name # ""

\* Fs::require_writable
require_writable(fs) == fs.writable /\ fs.ref_name # ""

\* Entry of commit_changes: the writable check, then wait for the repo lock.
commit_changes(w, fs, writes, removes, message, kind) ==
    IF ~require_writable(fs)
    THEN Finish(w, "PermissionError", NoFs, kind)
    ELSE /\ op' = [op EXCEPT ![w] = [NoOp EXCEPT !.kind = kind, !.fs = fs,
                                       !.writes = writes, !.removes = removes,
                                       !.message = message]]
         /\ pc' = [pc EXCEPT ![w] = "cc_lock"]
         /\ res' = [res EXCEPT ![w] = NoRes]

\* A lock that is granted without looking at its holder.
with_repo_lock_open(w) == lock' = w

\* The fallback build: fn() is called without any lock.
with_repo_lock_fallback(w) == UNCHANGED lock

\* lock::with_repo_lock: flock(LOCK_EX | LOCK_NB) succeeds when nobody holds it.
with_repo_lock(w) == lock = "none" /\ lock' = w

\* refname = "refs/heads/" + ref: the branch a writable snapshot belongs to,
\* one of the two branches of the model.
RefOf(fs) == IF fs.ref_name = "dev" THEN DevRef ELSE BranchRef

\* A stale test that compares tree ids where the code compares commit ids.
IsStaleByTree(fs) ==
    refs[RefOf(fs)] # 0 /\ tree_oid_for_commit(refs[RefOf(fs)]) # fs.tree

\* A stale test that also fails when the branch does not exist.
IsStaleOrAbsent(fs) == refs[RefOf(fs)] # fs.commit

\* The stale-snapshot test made inside the lock by commit_changes, undo and
\* redo: the branch exists and its tip differs from the snapshot's commit.
IsStale(fs) == refs[RefOf(fs)] # 0 /\ refs[RefOf(fs)] # fs.commit

CcLock(w) ==
    /\ pc[w] = "cc_lock"
    /\ with_repo_lock(w)
    /\ pc' = [pc EXCEPT ![w] = "cc_check"]
    /\ UNCHANGED <<trees, commits, refs, reflog, snap, op, res, batch, hist, mirror, ret, retry>>

\* CAS check; StaleSnapshotError unwinds through the lock guard.
CcCheck(w) ==
    /\ pc[w] = "cc_check"
    /\ IF IsStale(op[w].fs)
       THEN /\ Finish(w, "StaleSnapshotError", NoFs, op[w].kind)
            /\ lock' = "none"
       ELSE /\ pc' = [pc EXCEPT ![w] = "cc_build"]
            /\ UNCHANGED <<op, res, lock>>
    /\ UNCHANGED <<trees, commits, refs, reflog, snap, batch, hist, mirror, ret, retry>>

\* Rebuild the tree from the snapshot's tree and create the commit object;
\* `time` is what git_signature_now reads from the writer's clock.
CcBuild(w, time) ==
    /\ pc[w] = "cc_build"
    /\ LET fs == op[w].fs
           base_tree == IF fs.tree = 0 THEN EmptyTree ELSE trees[fs.tree]
           new_tree == rebuild_tree(base_tree, op[w].writes, op[w].removes)
           trees1 == PutObject(trees, new_tree)
           new_tree_hex == IndexOf(trees1, new_tree)
           c == write_commit(new_tree_hex, fs.commit, op[w].message, time)
           commits1 == PutObject(commits, c)
       IN /\ trees' = trees1
          /\ commits' = commits1
          /\ op' = [op EXCEPT ![w].new_tree = new_tree_hex,
                              ![w].new_commit = IndexOf(commits1, c)]
    /\ pc' = [pc EXCEPT ![w] = "cc_ref"]
    /\ UNCHANGED <<refs, reflog, lock, snap, res, batch, hist, mirror, ret, retry>>

\* A reference update that moves every branch to the new id.
SetRefEveryBranch(name, new_oid, message) ==
    /\ refs' = [r \in RefNames |-> IF r \in {BranchRef, DevRef} THEN new_oid ELSE refs[r]]
    /\ reflog' = [reflog EXCEPT ![name] =
                     <<[old |-> refs[name], new |-> new_oid, message |-> message]>> \o @]

\* git_reference_set_target / git_reference_create: the reference moves and
\* the reflog records (old id, new id, message). Any move of the branch ends
\* the validity of the undo observations.
SetRef(name, new_oid, message) ==
    /\ refs' = [refs EXCEPT ![name] = new_oid]
    /\ reflog' = [reflog EXCEPT ![name] =
                     <<[old |-> refs[name], new |-> new_oid, message |-> message]>> \o @]

\* A ref update that also moves the snapshot the caller holds (a write that
\* mutates its receiver).
CcUpdateRefInPlace(w) ==
    /\ pc[w] = "cc_ref"
    /\ SetRef(RefOf(op[w].fs), op[w].new_commit, op[w].message)
    /\ lock' = "none"
    /\ Finish(w, "ok", Fs(op[w].new_commit, op[w].new_tree, op[w].fs.ref_name, TRUE),
              op[w].kind)
    /\ hist' = [x \in Writers |-> [hist[x] EXCEPT !.undo = NoUndo]]
    /\ snap' = [snap EXCEPT ![w] =
                  Fs(op[w].new_commit, op[w].new_tree, op[w].fs.ref_name, TRUE)]
    /\ UNCHANGED <<trees, commits, batch, mirror, ret, retry>>

\* Update the ref, release the lock and return the new snapshot.
CcUpdateRef(w) ==
    /\ pc[w] = "cc_ref"
    /\ SetRef(RefOf(op[w].fs), op[w].new_commit, op[w].message)
    /\ lock' = "none"
    /\ Finish(w, "ok", Fs(op[w].new_commit, op[w].new_tree, op[w].fs.ref_name, TRUE),
              op[w].kind)
    /\ hist' = [x \in Writers |-> [hist[x] EXCEPT !.undo = NoUndo]]
    /\ UNCHANGED <<trees, commits, snap, batch, mirror, ret, retry>>

\* ---------------------------------------------------------------------------
\* Fs write operations
\* ---------------------------------------------------------------------------

CanStart(w) == pc[w] = "idle" /\ snap[w] # NoFs

\* Fs::write(path, data)
Write(w, p, v) ==
    /\ CanStart(w)
    /\ commit_changes(w, snap[w], <<W(p, v)>>, <<>>, <<"write:", ToString(p)>>, "write")
    /\ UNCHANGED <<trees, commits, refs, reflog, lock, snap, batch, hist, mirror, ret, retry>>

\* Fs::write(path, data, opts) with opts.message set: format_message returns
\* the caller's message, which is also the reflog message.
WriteMessage(w, p, v, message) ==
    /\ CanStart(w)
    /\ commit_changes(w, snap[w], <<W(p, v)>>, <<>>, message, "write")
    /\ UNCHANGED <<trees, commits, refs, reflog, lock, snap, batch, hist, mirror, ret, retry>>

\* Fs::apply(writes, removes)
Apply(w, args) ==
    /\ CanStart(w)
    /\ commit_changes(w, snap[w], args.writes, args.removes, <<"apply", "">>, "apply")
    /\ UNCHANGED <<trees, commits, refs, reflog, lock, snap, batch, hist, mirror, ret, retry>>

\* Fs::remove({path}, recursive): the path is looked up in the snapshot first.
Remove(w, p, recursive) ==
    /\ CanStart(w)
    /\ LET e == lookup(trees[snap[w].tree], p) IN
       IF ~require_writable(snap[w]) THEN Finish(w, "PermissionError", NoFs, "remove")
       ELSE IF e.mode = 0 THEN Finish(w, "NotFoundError", NoFs, "remove")
       ELSE IF e.mode = MODE_TREE /\ ~recursive
       THEN Finish(w, "IsADirectoryError", NoFs, "remove")
       ELSE commit_changes(w, snap[w], <<>>, <<p>>, <<"remove", "">>, "remove")
    /\ UNCHANGED <<trees, commits, refs, reflog, lock, snap, batch, hist, mirror, ret, retry>>

\* ---------------------------------------------------------------------------
\* Undo / redo
\* ---------------------------------------------------------------------------

\* A parent walk that stops after the first link.
NthParentOnce(c, n) ==
    IF n = 0 \/ c = 0 THEN c ELSE parent_oid(c)

\* The commit reached by following n first-parent links, 0 if history is shorter.
RECURSIVE NthParent(_, _)
NthParent(c, n) ==
    IF n = 0 \/ c = 0 THEN c ELSE NthParent(parent_oid(c), n - 1)

\* A reflog filter that recognises redo entries only.
IsRedoOnly(message) == message[1] = "redo:"

\* The reflog entries redo looks at: messages starting with undo: or redo:.
IsUndoRedo(message) == message[1] = "undo:" \/ message[1] = "redo:"

\* A reflog scan that follows every entry, whatever its message.
RECURSIVE RedoScanAnyEntry(_, _, _, _, _)
RedoScanAnyEntry(rlog, i, cur_hex, redo_found, n) ==
    IF i > Len(rlog) \/ redo_found >= n
    THEN [cur |-> cur_hex, found |-> redo_found]
    ELSE IF rlog[i].new = cur_hex /\ rlog[i].old # 0
    THEN RedoScanAnyEntry(rlog, i + 1, rlog[i].old, redo_found + 1, n)
    ELSE RedoScanAnyEntry(rlog, i + 1, cur_hex, redo_found, n)

\* The reflog scan of redo: entries most recent first; an undo/redo entry
\* whose new id equals the cursor and whose old id is non-zero moves the
\* cursor to its old id.
RECURSIVE RedoScan(_, _, _, _, _)
RedoScan(rlog, i, cur_hex, redo_found, n) ==
    IF i > Len(rlog) \/ redo_found >= n
    THEN [cur |-> cur_hex, found |-> redo_found]
    ELSE IF IsUndoRedo(rlog[i].message) /\ rlog[i].new = cur_hex /\ rlog[i].old # 0
    THEN RedoScan(rlog, i + 1, rlog[i].old, redo_found + 1, n)
    ELSE RedoScan(rlog, i + 1, cur_hex, redo_found, n)

\* What a finished redo is recorded as, when it was run on the snapshot the
\* writer's last undo returned and the branch has not moved in between.
RedoSeen(w, n, status, commit, tip) ==
    IF hist[w].undo.valid /\ op[w].fs.commit = hist[w].undo.to /\ op[w].kind = "redo"
    THEN [seen |-> TRUE, undone |-> hist[w].undo.n, n |-> n,
          from |-> hist[w].undo.from, status |-> status, commit |-> commit, tip |-> tip]
    ELSE NoRedo

\* Fs::undo(n), up to the lock.
Undo(w, n) ==
    /\ CanStart(w)
    /\ LET fs == snap[w]
           target_hex == NthParent(fs.commit, n)
       IN IF ~require_writable(fs) THEN Finish(w, "PermissionError", NoFs, "undo")
          ELSE IF fs.commit = 0 THEN Finish(w, "NotFoundError", NoFs, "undo")
          ELSE IF n = 0 THEN Finish(w, "ok", fs, "undo")
          ELSE IF target_hex = 0 THEN Finish(w, "NotFoundError", NoFs, "undo")
          ELSE /\ op' = [op EXCEPT ![w] = [NoOp EXCEPT !.kind = "undo", !.fs = fs,
                                             !.n = n, !.target = target_hex,
                                             !.message = <<"undo:", ToString(n)>>]]
               /\ pc' = [pc EXCEPT ![w] = "ur_lock"]
               /\ res' = [res EXCEPT ![w] = NoRes]
    /\ hist' = [hist EXCEPT ![w].redo = NoRedo]
    /\ UNCHANGED <<trees, commits, refs, reflog, lock, snap, batch, mirror, ret, retry>>

\* Fs::redo(n), up to the lock: the reflog is read outside the lock.
Redo(w, n) ==
    /\ CanStart(w)
    /\ LET fs == snap[w]
           scan == RedoScan(reflog[RefOf(fs)], 1, fs.commit, 0, n)
           seen == [seen |-> TRUE, undone |-> hist[w].undo.n, n |-> n,
                    from |-> hist[w].undo.from, status |-> "NotFoundError",
                    commit |-> 0, tip |-> refs[BranchRef]]
       IN IF ~require_writable(fs)
          THEN Finish(w, "PermissionError", NoFs, "redo") /\ hist' = [hist EXCEPT ![w].redo = NoRedo]
          ELSE IF n = 0
          THEN Finish(w, "ok", fs, "redo") /\ hist' = [hist EXCEPT ![w].redo = NoRedo]
          ELSE IF scan.found < n
          THEN /\ Finish(w, "NotFoundError", NoFs, "redo")
               /\ hist' = [hist EXCEPT ![w].redo =
                             IF hist[w].undo.valid /\ fs.commit = hist[w].undo.to
                             THEN seen ELSE NoRedo]
          ELSE /\ op' = [op EXCEPT ![w] = [NoOp EXCEPT !.kind = "redo", !.fs = fs,
                                             !.n = n, !.target = scan.cur,
                                             !.message = <<"redo:", ToString(n)>>]]
               /\ pc' = [pc EXCEPT ![w] = "ur_lock"]
               /\ res' = [res EXCEPT ![w] = NoRes]
               /\ hist' = [hist EXCEPT ![w].redo = NoRedo]
    /\ UNCHANGED <<trees, commits, refs, reflog, lock, snap, batch, mirror, ret, retry>>

UrLock(w) ==
    /\ pc[w] = "ur_lock"
    /\ with_repo_lock(w)
    /\ pc' = [pc EXCEPT ![w] = "ur_check"]
    /\ UNCHANGED <<trees, commits, refs, reflog, snap, op, res, batch, hist, mirror, ret, retry>>

\* Stale-snapshot check of undo / redo.
UrCheck(w) ==
    /\ pc[w] = "ur_check"
    /\ IF IsStale(op[w].fs)
       THEN /\ Finish(w, "StaleSnapshotError", NoFs, op[w].kind)
            /\ lock' = "none"
            /\ hist' = [hist EXCEPT ![w].redo =
                          RedoSeen(w, op[w].n, "StaleSnapshotError", 0, refs[BranchRef])]
       ELSE /\ pc' = [pc EXCEPT ![w] = "ur_set"]
            /\ UNCHANGED <<op, res, lock, hist>>
    /\ UNCHANGED <<trees, commits, refs, reflog, snap, batch, mirror, ret, retry>>

\* Set the branch to the target with the undo: / redo: reflog message.
UrSet(w) ==
    /\ pc[w] = "ur_set"
    /\ lock' = "none"
    /\ IF refs[RefOf(op[w].fs)] = 0
       THEN /\ Finish(w, "GitError", NoFs, op[w].kind)
            /\ hist' = [hist EXCEPT ![w].redo =
                          RedoSeen(w, op[w].n, "GitError", 0, refs[BranchRef])]
            /\ UNCHANGED <<refs, reflog>>
       ELSE /\ SetRef(RefOf(op[w].fs), op[w].target, op[w].message)
            /\ Finish(w, "ok", Fs(op[w].target, tree_oid_for_commit(op[w].target),
                                  op[w].fs.ref_name, TRUE), op[w].kind)
            /\ hist' = [x \in Writers |->
                          IF x # w THEN [hist[x] EXCEPT !.undo = NoUndo]
                          ELSE IF op[w].kind = "undo"
                          THEN [hist[w] EXCEPT
                                  !.undo = [valid |-> TRUE, n |-> op[w].n,
                                            from |-> op[w].fs.commit, to |-> op[w].target],
                                  !.redo = NoRedo]
                          ELSE [hist[w] EXCEPT
                                  !.undo = NoUndo,
                                  !.redo = RedoSeen(w, op[w].n, "ok", op[w].target,
                                                    op[w].target)]]
    /\ UNCHANGED <<trees, commits, snap, batch, mirror, ret, retry>>

\* ---------------------------------------------------------------------------
\* Batch accumulator
\* ---------------------------------------------------------------------------

\* Fs::batch(): a new Batch over the caller's snapshot (one batch per writer).
BatchNew(w) ==
    /\ pc[w] = "idle"
    /\ snap[w] # NoFs
    /\ ~batch[w].exists
    /\ batch' = [batch EXCEPT ![w] = [NoBatch EXCEPT !.exists = TRUE, !.fs_ = snap[w]]]
    /\ UNCHANGED <<trees, commits, refs, reflog, lock, pc, snap, op, res, hist, mirror, ret, retry>>

\* A require_open that lets every call through.
require_open_always(b) == TRUE

\* Batch::require_open
require_open(b) == ~b.closed_

\* std::remove over the removes list: the list without the given path.
RECURSIVE ErasePath(_, _)
ErasePath(seq, norm) ==
    IF seq = <<>> THEN <<>>
    ELSE IF Head(seq) = norm THEN ErasePath(Tail(seq), norm)
    ELSE <<Head(seq)>> \o ErasePath(Tail(seq), norm)

\* std::remove_if over the writes list: the list without writes to the path.
RECURSIVE EraseWrite(_, _)
EraseWrite(seq, norm) ==
    IF seq = <<>> THEN <<>>
    ELSE IF Head(seq).segs = norm THEN EraseWrite(Tail(seq), norm)
    ELSE <<Head(seq)>> \o EraseWrite(Tail(seq), norm)

Contains(seq, x) == \E i \in 1..Len(seq) : seq[i] = x

\* Batch::write_with_mode: staging of one write.
write_with_mode(b, norm, data, mode) ==
    [b EXCEPT !.removes_ = ErasePath(b.removes_, norm),
              !.writes_ = Append(EraseWrite(b.writes_, norm),
                                 [segs |-> norm, data |-> data, mode |-> mode])]

\* A staged remove that leaves the pending writes of the path in place.
batch_remove_keeps_writes(b, norm) ==
    [b EXCEPT !.removes_ = IF Contains(b.removes_, norm) THEN b.removes_
                           ELSE Append(b.removes_, norm)]

\* Batch::remove: staging of one remove.
batch_remove(b, norm) ==
    [b EXCEPT !.writes_ = EraseWrite(b.writes_, norm),
              !.removes_ = IF Contains(b.removes_, norm) THEN b.removes_
                           ELSE Append(b.removes_, norm)]

BatchCall(w) == pc[w] = "idle" /\ batch[w].exists
CanStage(w) == batch[w].closed_ \/ batch[w].ncalls < MaxCalls

\* Batch::write(path, data)
BatchWrite(w, p, v) ==
    /\ BatchCall(w) /\ CanStage(w)
    /\ IF ~require_open(batch[w])
       THEN /\ res' = [res EXCEPT ![w] = [status |-> "BatchClosedError", fs |-> NoFs,
                                          call |-> "batch.write"]]
            /\ UNCHANGED batch
       ELSE /\ batch' = [batch EXCEPT ![w] =
                           [write_with_mode(batch[w], p, v, MODE_BLOB)
                              EXCEPT !.last[p] = ToString(v), !.ncalls = @ + 1]]
            /\ res' = [res EXCEPT ![w] = [status |-> "staged", fs |-> NoFs,
                                          call |-> "batch.write"]]
    /\ UNCHANGED <<trees, commits, refs, reflog, lock, pc, snap, op, hist, mirror, ret, retry>>

\* Batch::remove(path)
BatchRemove(w, p) ==
    /\ BatchCall(w) /\ CanStage(w)
    /\ IF ~require_open(batch[w])
       THEN /\ res' = [res EXCEPT ![w] = [status |-> "BatchClosedError", fs |-> NoFs,
                                          call |-> "batch.remove"]]
            /\ UNCHANGED batch
       ELSE /\ batch' = [batch EXCEPT ![w] =
                           [batch_remove(batch[w], p)
                              EXCEPT !.last[p] = "remove", !.ncalls = @ + 1]]
            /\ res' = [res EXCEPT ![w] = [status |-> "staged", fs |-> NoFs,
                                          call |-> "batch.remove"]]
    /\ UNCHANGED <<trees, commits, refs, reflog, lock, pc, snap, op, hist, mirror, ret, retry>>

\* Batch::commit(): closes the batch, then delegates to commit_changes.
BatchCommit(w) ==
    /\ BatchCall(w)
    /\ IF ~require_open(batch[w])
       THEN /\ Finish(w, "BatchClosedError", NoFs, "batch.commit")
            /\ UNCHANGED batch
       ELSE /\ batch' = [batch EXCEPT ![w].closed_ = TRUE, ![w].engine_calls = @ + 1]
            /\ commit_changes(w, batch[w].fs_, batch[w].writes_, batch[w].removes_,
                              <<"batch:", ToString(<<Len(batch[w].writes_),
                                                     Len(batch[w].removes_)>>)>>,
                              "batch.commit")
    /\ UNCHANGED <<trees, commits, refs, reflog, lock, snap, hist, mirror, ret, retry>>

\* ---------------------------------------------------------------------------
\* Specification of the commit engine with every snapshot operation
\* ---------------------------------------------------------------------------

\* Arguments given to the operations.
WritePaths == {<<"f">>, <<"d", "f">>}
ApplyArgs ==
    { [writes |-> <<W(<<"f">>, 1), W(<<"d", "g">>, 2)>>, removes |-> <<>>],
      [writes |-> <<W(<<"d", "g">>, 1)>>, removes |-> << <<"f">> >>],
      [writes |-> <<W(<<"d", "g">>, 2)>>, removes |-> << <<"d">> >>] }
RemovePaths == {<<"f">>, <<"d">>}

Critical(w) ==
    \/ CcLock(w) \/ CcCheck(w) \/ CcUpdateRef(w)
    \/ \E t \in 0..MaxTime : CcBuild(w, t)

Next ==
    \/ \E w \in Writers : Get(w)
    \/ \E w \in Writers : Adopt(w)
    \/ \E w \in Writers, p \in WritePaths, v \in Values : Budget /\ Write(w, p, v)
    \/ \E w \in Writers, a \in ApplyArgs : Budget /\ Apply(w, a)
    \/ \E w \in Writers, p \in RemovePaths, r \in BOOLEAN : Budget /\ Remove(w, p, r)
    \/ \E w \in Writers, n \in 0..MaxSteps : MayLog /\ Undo(w, n)
    \/ \E w \in Writers, n \in 0..MaxSteps : Budget /\ Redo(w, n)
    \/ \E w \in Writers : UrLock(w)
    \/ \E w \in Writers : UrCheck(w)
    \/ \E w \in Writers : UrSet(w)
    \/ \E w \in Writers : Critical(w)

Spec == Init /\ [][Next]_vars

\* ---------------------------------------------------------------------------
\* Properties of the commit engine (specification Spec)
\* ---------------------------------------------------------------------------

IsPrefix(a, b) == Len(a) <= Len(b) /\ SubSeq(b, 1, Len(a)) = a
Related(a, b) == IsPrefix(a, b) \/ IsPrefix(b, a)

\* C2: an operation (write, apply, remove, undo, redo) that makes its check
\* inside the locked section while the branch exists and its tip differs from
\* the snapshot's commit fails with StaleSnapshotError there and leaves the
\* references and their reflogs as they were.
C2_StaleFailsInsideLock ==
    [][\A w \in Writers :
         (/\ pc[w] \in {"cc_check", "ur_check"} /\ pc'[w] # pc[w]
          /\ refs[BranchRef] # 0 /\ refs[BranchRef] # op[w].fs.commit)
           => /\ lock = w
              /\ pc'[w] = "idle"
              /\ res'[w].status = "StaleSnapshotError"
              /\ refs' = refs
              /\ reflog' = reflog]_vars

C2_Witness ==
    \E w \in Writers, x \in Writers :
        /\ res[w].status = "StaleSnapshotError" /\ res[w].call = "undo"
        /\ res[x].status = "StaleSnapshotError" /\ res[x].call \in {"write", "apply", "remove"}

\* C3: a commit that succeeds through the commit engine from a snapshot at
\* commit C leaves the branch at a new commit whose parent list is exactly
\* <<C>> (empty when the snapshot had no commit); the tip it replaces is C, and
\* no commit has more than one parent.
C3_CommitExtendsSnapshot ==
    [][\A w \in Writers :
         (pc[w] = "cc_ref" /\ pc'[w] = "idle" /\ res'[w].status = "ok")
           => LET C == op[w].fs.commit
                  Cnew == res'[w].fs.commit
              IN /\ Cnew # 0 /\ Cnew # C
                 /\ refs'[BranchRef] = Cnew
                 /\ commits'[Cnew].parents = (IF C = 0 THEN <<>> ELSE <<C>>)
                 /\ refs[BranchRef] \in {0, C}
                 /\ \A c \in 1..Len(commits') : Len(commits'[c].parents) <= 1]_vars

C3_Witness ==
    \E w \in Writers :
        /\ res[w].status = "ok" /\ res[w].call \in {"write", "apply", "remove"}
        /\ refs[BranchRef] = res[w].fs.commit
        /\ commits[res[w].fs.commit].parents # <<>>
        /\ parent_oid(commits[res[w].fs.commit].parents[1]) # 0

C5_SnapshotImmutable ==
    [][\A w \in Writers :
         LET reassigned == /\ snap'[w] # snap[w]
                           /\ pc[w] = "idle" /\ pc'[w] = "idle"
                           /\ UNCHANGED <<trees, commits, refs, reflog, lock, op, res>>
         IN (snap[w] # NoFs /\ ~reassigned /\ (trees' # trees \/ snap'[w] # snap[w]))
              => \A p \in Paths :
                    FsRead(trees', snap'[w], p) = FsRead(trees, snap[w], p)]_vars

C5_Witness ==
    \E w \in Writers :
        /\ snap[w] # NoFs
        /\ refs[BranchRef] # snap[w].commit
        /\ FsRead(trees, snap[w], <<"f">>) = "1"
        /\ FsRead(trees, Fs(refs[BranchRef], tree_oid_for_commit(refs[BranchRef]),
                            "main", TRUE), <<"f">>) \in {"2", "NotFoundError"}
        /\ res[w].status = "ok" /\ res[w].fs # snap[w]

\* ---------------------------------------------------------------------------
\* Two writers on one pre-image (specification SpecCAS)
\* ---------------------------------------------------------------------------

\* The branch after GitStore::open, or after one more write of f; both writers
\* hold the snapshot of its tip and have not called anything yet.
InitCAS ==
    /\ \/ InitRepo
       \/ /\ trees = <<EmptyTree, rebuild_tree(EmptyTree, <<W(<<"f">>, 1)>>, <<>>)>>
          /\ commits = <<write_commit(1, 0, <<"Initialize", "main">>, 0),
                         write_commit(2, 1, <<"write:", ToString(<<"f">>)>>, 0)>>
          /\ refs = [r \in RefNames |-> IF r = BranchRef THEN 2 ELSE 0]
          /\ reflog = [r \in RefNames |->
                         IF r = BranchRef
                         THEN <<[old |-> 1, new |-> 2, message |-> <<"write:", ToString(<<"f">>)>>],
                                [old |-> 0, new |-> 1,
                                 message |-> <<"commit (initial):", "Initialize main">>]>>
                         ELSE <<>>]
          /\ lock = "none"
    /\ InitLocals
    /\ snap = [w \in Writers |->
                 Fs(refs[BranchRef], tree_oid_for_commit(refs[BranchRef]), "main", TRUE)]

\* The writer has not made its attempt yet.
Once(w) == pc[w] = "idle" /\ res[w] = NoRes

NextCAS ==
    \/ \E w \in Writers, p \in WritePaths, v \in Values : Once(w) /\ Write(w, p, v)
    \/ \E w \in Writers, a \in ApplyArgs : Once(w) /\ Apply(w, a)
    \/ \E w \in Writers, p \in RemovePaths : Once(w) /\ Remove(w, p, TRUE)
    \/ \E w \in Writers : Critical(w)

SpecCAS == InitCAS /\ [][NextCAS]_vars

EngineOutcomes == {"ok", "StaleSnapshotError"}

\* C1: when both writers, holding snapshots of the same pre-image commit, have
\* each made one attempt through the commit engine, exactly one of them has
\* succeeded, the branch is at its commit, and the other has failed with
\* StaleSnapshotError.
C1_ExactlyOneWriterWins ==
    (\A w \in Writers : pc[w] = "idle" /\ res[w].status \in EngineOutcomes)
      => \E w \in Writers :
            /\ res[w].status = "ok"
            /\ refs[BranchRef] = res[w].fs.commit
            /\ \A x \in Writers \ {w} : res[x].status = "StaleSnapshotError"

C1_Witness ==
    /\ pc["w1"] = "idle" /\ res["w1"].status = "StaleSnapshotError"
    /\ pc["w2"] = "idle" /\ res["w2"].status = "ok"
    /\ refs[BranchRef] = res["w2"].fs.commit
    /\ snap["w1"] = snap["w2"]

\* ---------------------------------------------------------------------------
\* Undo and redo (specification SpecHistory)
\* ---------------------------------------------------------------------------

HistoryLog == Len(reflog[BranchRef]) + InFlight < MaxHistory

NextHistory ==
    \/ \E w \in Writers : Get(w)
    \/ \E w \in Writers : Adopt(w)
    \/ \E w \in Writers, v \in Values : MayCommit /\ HistoryLog /\ Write(w, <<"f">>, v)
    \/ \E w \in Writers, n \in 0..MaxSteps : HistoryLog /\ Undo(w, n)
    \/ \E w \in Writers, n \in 0..MaxSteps : HistoryLog /\ Redo(w, n)
    \/ \E w \in Writers : UrLock(w)
    \/ \E w \in Writers : UrCheck(w)
    \/ \E w \in Writers : UrSet(w)
    \/ \E w \in Writers : Critical(w)

SpecHistory == Init /\ [][NextHistory]_vars

\* C7: a redo(n) run on the snapshot that undo(n) returned, with no update of
\* the branch in between, succeeds and returns the commit the undo started
\* from.
C7_RedoNRestores ==
    \A w \in Writers :
        (hist[w].redo.seen /\ hist[w].redo.n = hist[w].redo.undone)
          => /\ hist[w].redo.status = "ok"
             /\ hist[w].redo.commit = hist[w].redo.from

\* undo(2) followed at once by redo(2) on its result: the reflog holds one
\* undo entry, the scan finds one step and redo fails with NotFoundError.
C7_RedoTwoFails ==
    \E w \in Writers :
        /\ hist[w].redo.seen
        /\ hist[w].redo.undone = 2 /\ hist[w].redo.n = 2
        /\ hist[w].redo.status = "NotFoundError"
        /\ refs[BranchRef] # hist[w].redo.from

RECURSIVE FirstParentAncestor(_, _)
FirstParentAncestor(c, n) ==
    IF c = 0 THEN 0
    ELSE IF n = 0 THEN c
    ELSE IF commits[c].parents = <<>> THEN 0
    ELSE FirstParentAncestor(commits[c].parents[1], n - 1)

\* An undo of w returns successfully in this step.
UndoReturns(w) ==
    /\ res'[w].call = "undo" /\ res'[w].status = "ok"
    /\ pc'[w] = "idle"
    /\ \/ pc[w] = "ur_set" /\ op[w].kind = "undo"
       \/ pc[w] = "idle" /\ res'[w] # res[w]

\* The snapshot the returning undo was called on and its step count: an undo
\* that returns from its first step is undo(0) on the caller's snapshot.
UndoFs(w) == IF pc[w] = "idle" THEN snap[w] ELSE op[w].fs
UndoN(w) == IF pc[w] = "idle" THEN 0 ELSE op[w].n

\* The effect the claim gives to a successful undo(n) on snapshot fs.
UndoEffect(w, fs, n) ==
    LET a == FirstParentAncestor(fs.commit, n) IN
    /\ a # 0
    /\ refs'[BranchRef] = a
    /\ res'[w].fs = Fs(a, commits[a].tree, fs.ref_name, TRUE)
    /\ reflog'[BranchRef] =
          <<[old |-> fs.commit, new |-> a, message |-> <<"undo:", ToString(n)>>]>>
             \o reflog[BranchRef]

\* C13 as stated: every successful undo(n) sets the branch to the n-th
\* first-parent ancestor of the snapshot's commit, returns a snapshot of it and
\* records exactly one reflog entry (old = snapshot's commit, new = ancestor,
\* message undo: N commit(s)).
C13_UndoAsStated ==
    [][\A w \in Writers : UndoReturns(w) => UndoEffect(w, UndoFs(w), UndoN(w))]_vars

\* C13: a successful undo(n) with n >= 1 sets the branch to the n-th
\* first-parent ancestor of the snapshot's commit, returns a snapshot of it and
\* records exactly one reflog entry (old = snapshot's commit, new = ancestor,
\* message undo: N commit(s)); undo(0) returns the snapshot it was called on
\* and changes neither the branch nor its reflog.
C13_UndoSetsAncestor ==
    [][\A w \in Writers :
          UndoReturns(w) =>
             IF UndoN(w) >= 1 THEN UndoEffect(w, UndoFs(w), UndoN(w))
             ELSE /\ res'[w].fs = UndoFs(w)
                  /\ refs' = refs /\ reflog' = reflog]_vars

C13_Witness ==
    \E w \in Writers :
        /\ res[w].call = "undo" /\ res[w].status = "ok"
        /\ hist[w].undo.valid /\ hist[w].undo.n = 2
        /\ refs[BranchRef] = res[w].fs.commit
        /\ reflog[BranchRef][1] = [old |-> hist[w].undo.from, new |-> res[w].fs.commit,
                                    message |-> <<"undo:", "2">>]
        /\ FirstParentAncestor(hist[w].undo.from, 2) = res[w].fs.commit

\* ---------------------------------------------------------------------------
\* Redo over any reflog (specification SpecRedo): the operations of
\* SpecHistory and writes whose caller-supplied message starts with undo:
\* ---------------------------------------------------------------------------

CallerMessages == {<<"undo:", "x">>}

NextRedo ==
    \/ \E w \in Writers : Get(w)
    \/ \E w \in Writers : Adopt(w)
    \/ \E w \in Writers : MayCommit /\ HistoryLog /\ Write(w, <<"f">>, 1)
    \/ \E w \in Writers, msg \in CallerMessages :
          MayCommit /\ HistoryLog /\ WriteMessage(w, <<"f">>, 2, msg)
    \/ \E w \in Writers, n \in 0..MaxSteps : HistoryLog /\ Undo(w, n)
    \/ \E w \in Writers, n \in 0..MaxSteps : HistoryLog /\ Redo(w, n)
    \/ \E w \in Writers : UrLock(w)
    \/ \E w \in Writers : UrCheck(w)
    \/ \E w \in Writers : UrSet(w)
    \/ \E w \in Writers : Critical(w)

SpecRedo == Init /\ [][NextRedo]_vars

\* The redo rule of the claim: the message starts with undo: or redo:, the
\* new id is the scan cursor and the old id is non-zero.
RedoRule(e, cur) ==
    /\ e.message[1] \in {"undo:", "redo:"}
    /\ e.new = cur
    /\ e.old # 0

\* Number of entries that chain from the cursor, most recent first.
RECURSIVE ChainLength(_, _, _)
ChainLength(rlog, i, cur) ==
    IF i > Len(rlog) THEN 0
    ELSE IF RedoRule(rlog[i], cur) THEN 1 + ChainLength(rlog, i + 1, rlog[i].old)
    ELSE ChainLength(rlog, i + 1, cur)

\* redo(n) by w ends in this step with NotFoundError and nothing has moved.
RedoNotFound(w) ==
    /\ res'[w].status = "NotFoundError" /\ res'[w].call = "redo"
    /\ pc'[w] = "idle"
    /\ refs' = refs /\ reflog' = reflog

\* An undo was performed on the branch: its reflog holds an entry written by
\* Fs::undo.
UndoPerformed ==
    \E i \in 1..Len(reflog[BranchRef]), n \in 1..MaxSteps :
        reflog[BranchRef][i].message = <<"undo:", ToString(n)>>

BatchOwner == "w1"
BatchPaths == {<<"f">>, <<"d">>, <<"d", "f">>}
BatchCalls == {"batch.commit", "batch.write", "batch.remove"}

\* The other writer leaves room for the commit of the batch.
Spare == Len(commits) + InFlight + 1 < MaxCommits /\ MayLog

NextBatch ==
    \/ \E w \in Writers : Get(w)
    \/ \E w \in Writers \ {BatchOwner}, v \in Values : Spare /\ Write(w, <<"f">>, v)
    \/ \E w \in Writers \ {BatchOwner} : Spare /\ Write(w, <<"d", "f">>, 1)
    \/ BatchNew(BatchOwner)
    \/ \E p \in BatchPaths, v \in Values : BatchWrite(BatchOwner, p, v)
    \/ \E p \in BatchPaths : BatchRemove(BatchOwner, p)
    \/ (batch[BatchOwner].closed_ \/ Budget) /\ BatchCommit(BatchOwner)
    \/ \E w \in Writers : Critical(w)

SpecBatch == Init /\ [][NextBatch]_vars

\* C9: when a batch is committed, every path p whose calls on the batch were
\* not mixed with calls on an ancestor or a descendant of p is absent from the
\* committed tree if the last call for p was remove(p), and holds the bytes of
\* the last write(p, _) otherwise.
C9_BatchLastCallWins ==
    [][\A w \in Writers :
         (pc[w] = "cc_ref" /\ op[w].kind = "batch.commit" /\ pc'[w] = "idle")
           => LET new == trees'[res'[w].fs.tree]
                  last == batch[w].last
              IN /\ res'[w].status = "ok"
                 /\ refs'[BranchRef] = res'[w].fs.commit
                 /\ \A p \in Paths :
                       (/\ last[p] # "none"
                        /\ \A q \in Paths \ {p} : Related(p, q) => last[q] = "none")
                         => IF last[p] = "remove"
                            THEN lookup(new, p).mode = 0
                            ELSE read_blob(new, p) = last[p]]_vars

C9_Witness ==
    \E w \in Writers :
        /\ res[w].status = "ok" /\ res[w].call = "batch.commit"
        /\ batch[w].ncalls >= 3
        /\ batch[w].last[<<"f">>] = "remove"
        /\ \A q \in Paths \ {<<"f">>} : batch[w].last[q] = "none"
        /\ read_blob(trees[batch[w].fs_.tree], <<"f">>) = "1"
        /\ read_blob(trees[res[w].fs.tree], <<"f">>) = "NotFoundError"

\* C10: commit() takes effect at most once per batch. Once commit() has been
\* called on a batch, every commit(), write or remove call on it fails with
\* BatchClosedError, changes neither the object store nor any reference, and
\* the batch has entered the commit engine at most once.
C10_BatchCommitsOnce ==
    [][\A w \in Writers :
         /\ batch'[w].engine_calls <= 1
         /\ (/\ batch[w].closed_ /\ pc[w] = "idle"
             /\ \/ res'[w] # res[w] /\ res'[w].call \in BatchCalls
                \/ op'[w].kind = "batch.commit"
                \/ batch'[w] # batch[w] /\ batch'[w].fs_ = batch[w].fs_
                                        /\ batch'[w].ncalls > batch[w].ncalls)
              => /\ res'[w].status = "BatchClosedError"
                 /\ pc'[w] = "idle"
                 /\ UNCHANGED <<trees, commits, refs, reflog, batch>>]_vars

C10_Witness ==
    \E w \in Writers :
        /\ batch[w].closed_ /\ batch[w].engine_calls = 1
        /\ res[w].status = "BatchClosedError" /\ res[w].call = "batch.commit"
        /\ \E c \in 1..Len(commits) : commits[c].message[1] = "batch:"
        /\ pc[w] = "idle"

\* ---------------------------------------------------------------------------
\* Notes sub-store: NoteNamespace on refs/notes/commits
\* ---------------------------------------------------------------------------

\* Commit hashes that carry notes; prefix = hash.substr(0, 2) and
\* suffix = hash.substr(2) as tables.
Hashes == {"aa01", "aa02"}
NoteTexts == {1, 2}
prefix_of(hash) == "aa"
suffix_of(hash) == IF hash = "aa01" THEN "01" ELSE "02"
NoteNames == Hashes \cup {prefix_of(h) : h \in Hashes}
\* Keys a caller may pass: commit hashes, and the branch name.
RefKeys == {"main"}
NoteKeys == Hashes \cup RefKeys

\* is_hex40: the string is 40 lowercase hex digits (the hashes of the model).
is_hex40(s) == s \in Hashes

\* validate_hash: InvalidHashError unless the key is a 40-hex string.
validate_hash(hash) == is_hex40(hash)
SubNames == {suffix_of(h) : h \in Hashes}

EmptyNotes == [n \in NoteNames |-> NoEntry]
EmptySub == [n \in SubNames |-> NoEntry]

\* NoteNamespace::tip_oid / tree_oid: 0 when the notes ref is absent.
tip_oid == refs[NotesRef]
tree_oid == IF tip_oid = 0 THEN 0 ELSE tree_oid_for_commit(tip_oid)

\* NoteNamespace::find_note: flat entry first, then the 2/38 fanout entry;
\* the blob (note text) or 0.
find_note(t, hash) ==
    IF t[hash].mode # 0 /\ t[hash].mode # MODE_TREE THEN t[hash].data
    ELSE IF t[prefix_of(hash)].mode = MODE_TREE
            /\ t[prefix_of(hash)].sub[suffix_of(hash)].mode # 0
    THEN t[prefix_of(hash)].sub[suffix_of(hash)].data
    ELSE 0

\* The treebuilder holds <prefix>/<suffix> for the hash.
HasFanout(tb, hash) ==
    /\ tb[prefix_of(hash)].mode = MODE_TREE
    /\ tb[prefix_of(hash)].sub[suffix_of(hash)].mode # 0

\* Rebuild the fanout subtree without the entry; drop the directory when the
\* subtree becomes empty.
RemoveFanout(tb, hash) ==
    LET sub == [tb[prefix_of(hash)].sub EXCEPT ![suffix_of(hash)] = NoEntry]
    IN IF \A n \in SubNames : sub[n].mode = 0
       THEN [tb EXCEPT ![prefix_of(hash)] = NoEntry]
       ELSE [tb EXCEPT ![prefix_of(hash)] = TreeEntry(sub)]

\* build_note_tree, deletes: flat first, then fanout, else KeyNotFoundError.
RECURSIVE NoteDeletes(_, _, _)
NoteDeletes(tb, deletes, i) ==
    IF i > Len(deletes) THEN [ok |-> TRUE, tb |-> tb]
    ELSE IF tb[deletes[i]].mode # 0
    THEN NoteDeletes([tb EXCEPT ![deletes[i]] = NoEntry], deletes, i + 1)
    ELSE IF HasFanout(tb, deletes[i])
    THEN NoteDeletes(RemoveFanout(tb, deletes[i]), deletes, i + 1)
    ELSE [ok |-> FALSE, tb |-> tb]

\* Writes that insert the flat entry and leave a fanout entry of the hash.
RECURSIVE NoteWritesKeepFanout(_, _, _)
NoteWritesKeepFanout(tb, writes, i) ==
    IF i > Len(writes) THEN tb
    ELSE NoteWritesKeepFanout(
            [tb EXCEPT ![writes[i].hash] = BlobEntry(writes[i].text, MODE_BLOB)],
            writes, i + 1)

\* build_note_tree, writes: always flat; a fanout entry of the hash is removed.
RECURSIVE NoteWrites(_, _, _)
NoteWrites(tb, writes, i) ==
    IF i > Len(writes) THEN tb
    ELSE LET hash == writes[i].hash
             tb1 == IF HasFanout(tb, hash) THEN RemoveFanout(tb, hash) ELSE tb
         IN NoteWrites([tb1 EXCEPT ![hash] = BlobEntry(writes[i].text, MODE_BLOB)],
                       writes, i + 1)

\* NoteNamespace::build_note_tree over the base tree (EmptyNotes when absent).
build_note_tree(base, writes, deletes) ==
    LET d == NoteDeletes(base, deletes, 1)
    IN IF d.ok THEN [ok |-> TRUE, tb |-> NoteWrites(d.tb, writes, 1)] ELSE d

NoteBase(id) == IF id = 0 THEN EmptyNotes ELSE trees[id]

\* NoteNamespace::get: the text of the note, or the error thrown.
NoteGet(hash) ==
    IF ~validate_hash(hash) THEN "InvalidHashError"
    ELSE IF tree_oid = 0 THEN "KeyNotFoundError"
    ELSE IF find_note(trees[tree_oid], hash) = 0 THEN "KeyNotFoundError"
    ELSE ToString(find_note(trees[tree_oid], hash))

\* NoteNamespace::has: "true" / "false", or the error thrown.
NoteHas(hash) ==
    IF ~validate_hash(hash) THEN "InvalidHashError"
    ELSE IF tree_oid = 0 THEN "false"
    ELSE IF find_note(trees[tree_oid], hash) = 0 THEN "false" ELSE "true"

\* Entries of a notes tree and of a fanout subtree in tree order (a directory
\* sorts as its name followed by "/").
NoteOrder == <<"aa", "aa01", "aa02">>
SubOrder == <<"01", "02">>

\* Selection of the elements of a sequence that satisfy a test, in order.
RECURSIVE KeepHex(_, _)
KeepHex(seq, i) ==
    IF i > Len(seq) THEN <<>>
    ELSE (IF is_hex40(seq[i]) THEN <<seq[i]>> ELSE <<>>) \o KeepHex(seq, i + 1)

\* The present entries of a fanout subtree as full hashes (prefix + suffix).
RECURSIVE SubHashes(_, _, _)
SubHashes(sub, name, j) ==
    IF j > Len(SubOrder) THEN <<>>
    ELSE (IF sub[SubOrder[j]].mode # 0 THEN <<name \o SubOrder[j]>> ELSE <<>>)
            \o SubHashes(sub, name, j + 1)

\* NoteNamespace::iter_notes: fanout subtrees (trees with a two-character
\* name) contribute prefix + suffix, flat entries their name; only 40-hex
\* names are kept.
RECURSIVE iter_notes(_, _)
iter_notes(t, i) ==
    IF i > Len(NoteOrder) THEN <<>>
    ELSE LET name == NoteOrder[i]
             here == IF t[name].mode = 0 THEN <<>>
                     ELSE IF t[name].mode = MODE_TREE /\ name \notin Hashes
                     THEN KeepHex(SubHashes(t[name].sub, name, 1), 1)
                     ELSE KeepHex(<<name>>, 1)
         IN here \o iter_notes(t, i + 1)

\* NoteNamespace::list: the hashes of iter_notes (std::sort keeps duplicates).
NoteList == IF tree_oid = 0 THEN <<>> ELSE iter_notes(trees[tree_oid], 1)

NoteStart(w, kind, writes, deletes, message) ==
    /\ op' = [op EXCEPT ![w] = [NoOp EXCEPT !.kind = kind, !.writes = writes,
                                       !.removes = deletes, !.message = message,
                                       !.base_tree = tree_oid]]
    /\ pc' = [pc EXCEPT ![w] = "n_build"]
    /\ res' = [res EXCEPT ![w] = NoRes]

\* NoteNamespace::set, first block: the blob is created and the base tree is
\* read under the store mutex; the repository lock is not held.
NoteSet(w, hash, text) ==
    /\ pc[w] = "idle"
    /\ IF ~validate_hash(hash)
       THEN Finish(w, "InvalidHashError", NoFs, "notes.set")
       ELSE NoteStart(w, "notes.set", <<[hash |-> hash, text |-> text]>>, <<>>,
                      <<"Notes updated", "">>)
    /\ UNCHANGED <<trees, commits, refs, reflog, lock, snap, batch, hist, mirror, ret, retry>>

\* NoteNamespace::del, first block.
NoteDel(w, hash) ==
    /\ pc[w] = "idle"
    /\ IF ~validate_hash(hash)
       THEN Finish(w, "InvalidHashError", NoFs, "notes.del")
       ELSE IF tree_oid = 0
       THEN Finish(w, "KeyNotFoundError", NoFs, "notes.del")
       ELSE NoteStart(w, "notes.del", <<>>, <<hash>>, <<"Notes updated", "">>)
    /\ UNCHANGED <<trees, commits, refs, reflog, lock, snap, batch, hist, mirror, ret, retry>>

\* NotesBatch::commit with the staged writes and deletes, first block.
NotesBatchCommit(w, args) ==
    /\ pc[w] = "idle"
    /\ IF args.writes = <<>> /\ args.deletes = <<>>
       THEN Finish(w, "ok", NoFs, "notes.batch")
       ELSE NoteStart(w, "notes.batch", args.writes, args.deletes,
                      <<"Notes batch update",
                        ToString(Len(args.writes) + Len(args.deletes))>>)
    /\ UNCHANGED <<trees, commits, refs, reflog, lock, snap, batch, hist, mirror, ret, retry>>

\* Second block of set / del / batch commit: the tree is built from the base
\* tree read before, under the store mutex only.
NoteBuild(w) ==
    /\ pc[w] = "n_build"
    /\ LET b == build_note_tree(NoteBase(op[w].base_tree), op[w].writes, op[w].removes)
           trees1 == PutObject(trees, b.tb)
       IN IF ~b.ok
          THEN /\ Finish(w, "KeyNotFoundError", NoFs, op[w].kind)
               /\ UNCHANGED trees
          ELSE /\ trees' = trees1
               /\ op' = [op EXCEPT ![w].new_tree = IndexOf(trees1, b.tb)]
               /\ pc' = [pc EXCEPT ![w] = "n_lock"]
               /\ UNCHANGED res
    /\ UNCHANGED <<commits, refs, reflog, lock, snap, batch, hist, mirror, ret, retry>>

\* commit_note_tree: wait for the repository lock.
NoteLock(w) ==
    /\ pc[w] = "n_lock"
    /\ with_repo_lock(w)
    /\ pc' = [pc EXCEPT ![w] = "n_commit"]
    /\ UNCHANGED <<trees, commits, refs, reflog, snap, op, res, batch, hist, mirror, ret, retry>>

\* commit_note_tree inside the lock: the tip is read again as the parent, the
\* commit is created over the tree built before and the ref is set to it.
commit_note_tree(w, time) ==
    /\ pc[w] = "n_commit"
    /\ LET parent_hex == tip_oid
           c == write_commit(op[w].new_tree, parent_hex, op[w].message, time)
           commits1 == PutObject(commits, c)
       IN /\ commits' = commits1
          /\ SetRef(NotesRef, IndexOf(commits1, c), op[w].message)
    /\ lock' = "none"
    /\ Finish(w, "ok", NoFs, op[w].kind)
    /\ hist' = [hist EXCEPT ![w].note = [done |-> TRUE, writes |-> op[w].writes,
                                          deletes |-> op[w].removes]]
    /\ UNCHANGED <<trees, snap, batch, mirror, ret, retry>>

\* ---------------------------------------------------------------------------
\* Concurrent notes operations (specification SpecNotes)
\* ---------------------------------------------------------------------------

\* Message of a notes commit made by git itself.
GitNotesMessage == <<"Notes added by 'git notes add'", "">>

\* Notes trees present when the store is opened: one flat note, or one or two
\* notes in the 2/38 fanout layout written by git.
InitialNotes ==
    { [EmptyNotes EXCEPT !["aa01"] = BlobEntry(1, MODE_BLOB)],
      [EmptyNotes EXCEPT !["aa"] =
          TreeEntry([EmptySub EXCEPT !["01"] = BlobEntry(1, MODE_BLOB)])],
      [EmptyNotes EXCEPT !["aa"] =
          TreeEntry([EmptySub EXCEPT !["01"] = BlobEntry(1, MODE_BLOB),
                                     !["02"] = BlobEntry(1, MODE_BLOB)])] }

InitNotes ==
    /\ \/ InitRepo
       \/ \E t \in InitialNotes :
            /\ trees = <<EmptyTree, t>>
            /\ commits = <<write_commit(1, 0, <<"Initialize", "main">>, 0),
                           write_commit(2, 0, GitNotesMessage, 0)>>
            /\ refs = [r \in RefNames |->
                         IF r = BranchRef THEN 1 ELSE IF r = NotesRef THEN 2 ELSE 0]
            /\ reflog = [r \in RefNames |->
                           IF r = BranchRef
                           THEN <<[old |-> 0, new |-> 1,
                                   message |-> <<"commit (initial):", "Initialize main">>]>>
                           ELSE IF r = NotesRef
                           THEN <<[old |-> 0, new |-> 2, message |-> GitNotesMessage]>>
                           ELSE <<>>]
            /\ lock = "none"
    /\ InitLocals
    /\ snap = [w \in Writers |-> NoFs]

NotesBatchArgs ==
    { [writes |-> <<>>, deletes |-> <<>>],
      [writes |-> <<[hash |-> "aa02", text |-> 2]>>, deletes |-> <<"aa01">>],
      [writes |-> <<[hash |-> "aa01", text |-> 2], [hash |-> "aa02", text |-> 1]>>,
       deletes |-> <<>>] }

NextNotes ==
    \/ \E w \in Writers, h \in NoteKeys, t \in NoteTexts : Once(w) /\ NoteSet(w, h, t)
    \/ \E w \in Writers, h \in NoteKeys : Once(w) /\ NoteDel(w, h)
    \/ \E w \in Writers, a \in NotesBatchArgs : Once(w) /\ NotesBatchCommit(w, a)
    \/ \E w \in Writers : NoteBuild(w)
    \/ \E w \in Writers : NoteLock(w)
    \/ \E w \in Writers, t \in 0..MaxTime : commit_note_tree(w, t)

SpecNotes == InitNotes /\ [][NextNotes]_vars

\* The notes tree the store was opened with, and the one at the tip.
NotesAtOpen ==
    IF \E c \in 1..Len(commits) : commits[c].message = GitNotesMessage
    THEN trees[commits[CHOOSE c \in 1..Len(commits) :
                          commits[c].message = GitNotesMessage].tree]
    ELSE EmptyNotes
NotesNow == NoteBase(tree_oid)

\* The notes tree after the operations of x, then of y, applied one at a time.
OneAtATime(x, y) ==
    LET first == build_note_tree(NotesAtOpen, hist[x].note.writes, hist[x].note.deletes)
        second == build_note_tree(first.tb, hist[y].note.writes, hist[y].note.deletes)
    IN [ok |-> first.ok /\ second.ok, tb |-> second.tb]

\* C6: when two concurrent set / del / batch-commit operations on the notes
\* namespace have both returned successfully, the notes tree at the tip equals
\* the result of applying them one at a time in one of the two orders.
C6_NotesLinearizable ==
    (\A w \in Writers : pc[w] = "idle" /\ hist[w].note.done)
      => \E x \in Writers, y \in Writers :
            /\ x # y
            /\ OneAtATime(x, y).ok
            /\ OneAtATime(x, y).tb = NotesNow

\* Two concurrent set calls on different hashes, both successful, and the note
\* of one of them is missing at the tip.
C6_LostNote ==
    /\ \A w \in Writers : pc[w] = "idle" /\ res[w] = [status |-> "ok", fs |-> NoFs,
                                                        call |-> "notes.set"]
    /\ hist["w1"].note.writes = <<[hash |-> "aa01", text |-> 1]>>
    /\ hist["w2"].note.writes = <<[hash |-> "aa02", text |-> 2]>>
    /\ find_note(NotesAtOpen, "aa01") = 0 /\ find_note(NotesAtOpen, "aa02") = 0
    /\ find_note(NotesNow, "aa01") = 0
    /\ find_note(NotesNow, "aa02") = 2

\* The note of the hash is stored in the fanout layout only.
OnlyFanout(t, h) == t[h].mode = 0 /\ HasFanout(t, h)

\* Number of occurrences of x in a sequence.
Count(seq, x) == Cardinality({i \in 1..Len(seq) : seq[i] = x})

\* The fanout subtree of the hash holds no other entry.
AloneInFanout(t, h) ==
    \A n \in SubNames \ {suffix_of(h)} : t[prefix_of(h)].sub[n].mode = 0

\* C15: for a hash whose note exists only in the 2/38 fanout layout, get
\* returns its bytes; when a set(h, b) built on such a tree commits, the note
\* is a flat entry, the fanout entry of h is gone (the fanout subtree dropped
\* if it became empty), get(h) is b and list() holds h exactly once.
C15_FanoutSetGoesFlat ==
    [][/\ \A h \in Hashes :
            OnlyFanout(NotesNow, h)
               => NoteGet(h) = ToString(NotesNow[prefix_of(h)].sub[suffix_of(h)].data)
       /\ \A w \in Writers, h \in Hashes, b \in NoteTexts :
            (/\ pc[w] = "n_commit" /\ pc'[w] = "idle" /\ op[w].kind = "notes.set"
             /\ op[w].writes = <<[hash |-> h, text |-> b]>>
             /\ OnlyFanout(NoteBase(op[w].base_tree), h))
              => /\ NotesNow'[h] = BlobEntry(b, MODE_BLOB)
                 /\ ~HasFanout(NotesNow', h)
                 /\ AloneInFanout(NoteBase(op[w].base_tree), h)
                       => NotesNow'[prefix_of(h)].mode = 0
                 /\ NoteGet(h)' = ToString(b)
                 /\ Count(NoteList', h) = 1]_vars

C15_Witness ==
    \E w \in Writers :
        /\ res[w] = [status |-> "ok", fs |-> NoFs, call |-> "notes.set"]
        /\ hist[w].note.writes = <<[hash |-> "aa01", text |-> 2]>>
        /\ OnlyFanout(NotesAtOpen, "aa01") /\ AloneInFanout(NotesAtOpen, "aa01")
        /\ NotesNow["aa"].mode = 0
        /\ NoteGet("aa01") = "2"
        /\ NoteList = <<"aa01">>

\* The 40-hex id of a commit, and the key a ref name stands for: the id of
\* the commit at the tip of the branch.
CommitHash(c) == IF c = 1 THEN "aa01" ELSE "aa02"
TipHash(name) == CommitHash(refs[BranchRef])

\* C16: get, set, del and has accept a branch name in place of a 40-hex hash
\* and operate on the note keyed by the commit at the tip of that branch:
\* each call with the name does what the call with the tip's hash does.
C16_RefNamesResolve ==
    [][/\ \A k \in RefKeys :
            /\ NoteGet(k) = NoteGet(TipHash(k))
            /\ NoteHas(k) = NoteHas(TipHash(k))
       /\ \A w \in Writers, k \in RefKeys :
            /\ \A t \in NoteTexts : NoteSet(w, k, t) => NoteSet(w, TipHash(k), t)
            /\ NoteDel(w, k) => NoteDel(w, TipHash(k))]_vars

\* set("main", t) has been refused with InvalidHashError, and get("main")
\* is refused as well, while the branch main exists.
C16_RefNameRefused ==
    \E w \in Writers :
        /\ res[w] = [status |-> "InvalidHashError", fs |-> NoFs, call |-> "notes.set"]
        /\ refs[BranchRef] # 0
        /\ NoteGet("main") = "InvalidHashError"
        /\ NoteHas("main") = "InvalidHashError"

\* ---------------------------------------------------------------------------
\* The notes batch (specification SpecNotesBatch)
\* ---------------------------------------------------------------------------

\* A NotesBatch as constructed by NoteNamespace::batch(): nothing staged, not
\* committed. last and ncalls record the calls made on it.
NewNotesBatch ==
    [exists |-> TRUE, writes_ |-> <<>>, deletes_ |-> <<>>, committed_ |-> FALSE,
     last |-> [h \in Hashes |-> "none"], ncalls |-> 0]

\* std::remove_if over writes_: the list without the writes for the hash.
RECURSIVE EraseNote(_, _)
EraseNote(seq, hash) ==
    IF seq = <<>> THEN <<>>
    ELSE IF Head(seq).hash = hash THEN EraseNote(Tail(seq), hash)
    ELSE <<Head(seq)>> \o EraseNote(Tail(seq), hash)

\* NotesBatch::set after the checks: staging of one write.
notes_batch_set(b, hash, text) ==
    [b EXCEPT !.deletes_ = ErasePath(b.deletes_, hash),
              !.writes_ = Append(EraseNote(b.writes_, hash),
                                 [hash |-> hash, text |-> text])]

\* A staged delete that leaves the pending writes for the hash in place.
notes_batch_del_keeps_writes(b, hash) ==
    [b EXCEPT !.deletes_ = IF Contains(b.deletes_, hash) THEN b.deletes_
                           ELSE Append(b.deletes_, hash)]

\* NotesBatch::del after the checks: staging of one delete.
notes_batch_del(b, hash) ==
    [b EXCEPT !.writes_ = EraseNote(b.writes_, hash),
              !.deletes_ = IF Contains(b.deletes_, hash) THEN b.deletes_
                           ELSE Append(b.deletes_, hash)]

\* NoteNamespace::batch() (one batch per writer).
NoteNamespace_batch(w) ==
    /\ pc[w] = "idle"
    /\ ~batch[w].exists
    /\ batch' = [batch EXCEPT ![w] = NewNotesBatch]
    /\ UNCHANGED <<trees, commits, refs, reflog, lock, pc, snap, op, res, hist, mirror, ret, retry>>

NotesBatchCall(w) == pc[w] = "idle" /\ batch[w].exists
NotesCanStage(w) == batch[w].committed_ \/ batch[w].ncalls < MaxCalls

\* NotesBatch::set(hash, text)
NotesBatch_set(w, hash, text) ==
    /\ NotesBatchCall(w) /\ NotesCanStage(w)
    /\ IF batch[w].committed_
       THEN /\ res' = [res EXCEPT ![w] = [status |-> "BatchClosedError", fs |-> NoFs,
                                          call |-> "notesbatch.set"]]
            /\ UNCHANGED batch
       ELSE IF ~validate_hash(hash)
       THEN /\ res' = [res EXCEPT ![w] = [status |-> "InvalidHashError", fs |-> NoFs,
                                          call |-> "notesbatch.set"]]
            /\ UNCHANGED batch
       ELSE /\ batch' = [batch EXCEPT ![w] =
                           [notes_batch_set(batch[w], hash, text)
                              EXCEPT !.last[hash] = ToString(text), !.ncalls = @ + 1]]
            /\ res' = [res EXCEPT ![w] = [status |-> "staged", fs |-> NoFs,
                                          call |-> "notesbatch.set"]]
    /\ UNCHANGED <<trees, commits, refs, reflog, lock, pc, snap, op, hist, mirror, ret, retry>>

\* NotesBatch::del(hash)
NotesBatch_del(w, hash) ==
    /\ NotesBatchCall(w) /\ NotesCanStage(w)
    /\ IF batch[w].committed_
       THEN /\ res' = [res EXCEPT ![w] = [status |-> "BatchClosedError", fs |-> NoFs,
                                          call |-> "notesbatch.del"]]
            /\ UNCHANGED batch
       ELSE IF ~validate_hash(hash)
       THEN /\ res' = [res EXCEPT ![w] = [status |-> "InvalidHashError", fs |-> NoFs,
                                          call |-> "notesbatch.del"]]
            /\ UNCHANGED batch
       ELSE /\ batch' = [batch EXCEPT ![w] =
                           [notes_batch_del(batch[w], hash)
                              EXCEPT !.last[hash] = "del", !.ncalls = @ + 1]]
            /\ res' = [res EXCEPT ![w] = [status |-> "staged", fs |-> NoFs,
                                          call |-> "notesbatch.del"]]
    /\ UNCHANGED <<trees, commits, refs, reflog, lock, pc, snap, op, hist, mirror, ret, retry>>

\* NotesBatch::commit() on the staged lists: the batch is marked committed
\* first; an empty batch returns, any other goes on as a notes operation.
NotesBatch_commit(w) ==
    /\ NotesBatchCall(w)
    /\ IF batch[w].committed_
       THEN /\ Finish(w, "BatchClosedError", NoFs, "notes.batch")
            /\ UNCHANGED batch
       ELSE /\ batch' = [batch EXCEPT ![w].committed_ = TRUE]
            /\ IF batch[w].writes_ = <<>> /\ batch[w].deletes_ = <<>>
               THEN Finish(w, "ok", NoFs, "notes.batch")
               ELSE NoteStart(w, "notes.batch", batch[w].writes_, batch[w].deletes_,
                              <<"Notes batch update",
                                ToString(Len(batch[w].writes_) + Len(batch[w].deletes_))>>)
    /\ UNCHANGED <<trees, commits, refs, reflog, lock, snap, hist, mirror, ret, retry>>

\* One writer stages and commits a batch; the other writer makes one set or
\* del on the namespace beside it.
NextNotesBatch ==
    \/ NoteNamespace_batch(BatchOwner)
    \/ \E h \in NoteKeys, t \in NoteTexts : NotesBatch_set(BatchOwner, h, t)
    \/ \E h \in NoteKeys : NotesBatch_del(BatchOwner, h)
    \/ NotesBatch_commit(BatchOwner)
    \/ \E w \in Writers \ {BatchOwner}, h \in Hashes, t \in NoteTexts :
          Once(w) /\ NoteSet(w, h, t)
    \/ \E w \in Writers \ {BatchOwner}, h \in Hashes : Once(w) /\ NoteDel(w, h)
    \/ \E w \in Writers : NoteBuild(w)
    \/ \E w \in Writers : NoteLock(w)
    \/ \E w \in Writers, t \in 0..MaxTime : commit_note_tree(w, t)

SpecNotesBatch == InitNotes /\ [][NextNotesBatch]_vars

\* The note of every hash the batch was called for is the one its last call
\* asks for, in the notes tree now at the tip.
LastCallsWin(w) ==
    \A h \in Hashes :
        batch[w].last[h] # "none"
          => IF batch[w].last[h] = "del"
             THEN find_note(NotesNow, h) = 0
             ELSE ToString(find_note(NotesNow, h)) = batch[w].last[h]

\* commit() of the batch of w ends with this step, by returning or throwing.
NotesBatchCommitEnds(w) ==
    /\ op[w].kind = "notes.batch"
    /\ pc[w] \in {"n_build", "n_commit"}
    /\ pc'[w] = "idle"

GetTag(w) ==
    /\ pc[w] = "idle"
    /\ refs[TagRef] # 0
    /\ snap[w] # Fs(refs[TagRef], tree_oid_for_commit(refs[TagRef]), "v1", FALSE)
    /\ snap' = [snap EXCEPT ![w] =
                  Fs(refs[TagRef], tree_oid_for_commit(refs[TagRef]), "v1", FALSE)]
    /\ UNCHANGED <<trees, commits, refs, reflog, lock, pc, op, res, batch, hist, mirror, ret, retry>>

\* GitStore::fs(hash): a detached, read-only snapshot of any stored commit.
GetHash(w, c) ==
    /\ pc[w] = "idle"
    /\ c \in 1..Len(commits)
    /\ snap[w] # Fs(c, tree_oid_for_commit(c), "", FALSE)
    /\ snap' = [snap EXCEPT ![w] = Fs(c, tree_oid_for_commit(c), "", FALSE)]
    /\ UNCHANGED <<trees, commits, refs, reflog, lock, pc, op, res, batch, hist, mirror, ret, retry>>

\* The GitStore handle (and so the inner mutex) a caller works through: every
\* caller has opened the repository itself.
StoreOf(w) == w

\* std::lock_guard on inner_->mutex: free when no caller of the same handle
\* is inside RefDict::set.
MutexFree(w) ==
    \A x \in Writers \ {w} : StoreOf(x) = StoreOf(w) => pc[x] # "set_create"

\* RefDict::set("v1", fs) on tags(), first half: the snapshot must have a
\* commit; under the mutex the reference is looked up, and a tag that exists
\* is refused.
TagSetLookup(w) ==
    /\ CanStart(w)
    /\ MutexFree(w)
    /\ IF snap[w].commit = 0
       THEN Finish(w, "GitError", NoFs, "tags.set")
       ELSE IF refs[TagRef] # 0
       THEN Finish(w, "KeyExistsError", NoFs, "tags.set")
       ELSE /\ op' = [op EXCEPT ![w] = [NoOp EXCEPT !.kind = "tags.set", !.fs = snap[w],
                                          !.target = snap[w].commit,
                                          !.message = <<"refdict:", "set">>]]
            /\ pc' = [pc EXCEPT ![w] = "set_create"]
            /\ res' = [res EXCEPT ![w] = NoRes]
    /\ UNCHANGED <<trees, commits, refs, reflog, lock, snap, batch, hist, mirror, ret, retry>>

\* RefDict::set, second half: git_reference_create with force = 1. Tags have
\* no reflog.
TagSetCreate(w) ==
    /\ pc[w] = "set_create"
    /\ refs' = [refs EXCEPT ![TagRef] = op[w].target]
    /\ Finish(w, "ok", op[w].fs, "tags.set")
    /\ UNCHANGED <<trees, commits, reflog, lock, snap, batch, hist, mirror, ret, retry>>

\* Tree order of the names of one tree (git_tree_walk, pre-order).
NameOrder == <<"d", "f", "g">>

\* tree::walk_tree: the leaf entries below a tree, as [segs, data, mode], every
\* path prefixed with the path of the tree.
RECURSIVE walk_tree(_, _, _)
walk_tree(t, prefix, i) ==
    IF i > Len(NameOrder) THEN <<>>
    ELSE LET n == NameOrder[i]
             e == t[n]
             here == IF e.mode = 0 THEN <<>>
                     ELSE IF e.mode = MODE_TREE THEN walk_tree(e.sub, Append(prefix, n), 1)
                     ELSE <<[segs |-> Append(prefix, n), data |-> e.data, mode |-> e.mode]>>
         IN here \o walk_tree(t, prefix, i + 1)

\* The writes of a directory rename: every child goes to dest + (path - src).
Moved(children, src, dest) ==
    [k \in 1..Len(children) |->
        [children[k] EXCEPT !.segs = dest \o SubSeq(@, Len(src) + 1, Len(@))]]

\* Fs::rename(src, dest)
Rename(w, src, dest) ==
    /\ CanStart(w)
    /\ LET fs == snap[w]
           entry == lookup(trees[fs.tree], src)
           message == <<"rename:", ToString(<<src, dest>>)>>
       IN IF ~require_writable(fs) THEN Finish(w, "PermissionError", NoFs, "rename")
          ELSE IF entry.mode = 0 THEN Finish(w, "NotFoundError", NoFs, "rename")
          ELSE IF entry.mode = MODE_TREE
          THEN commit_changes(w, fs, Moved(walk_tree(entry.sub, src, 1), src, dest),
                              <<src>>, message, "rename")
          ELSE commit_changes(w, fs, <<[segs |-> dest, data |-> entry.data,
                                        mode |-> entry.mode]>>,
                              <<src>>, message, "rename")
    /\ UNCHANGED <<trees, commits, refs, reflog, lock, snap, batch, hist, mirror, ret, retry>>

\* ---------------------------------------------------------------------------
\* Specifications of read-only snapshots (one caller holding branch, tag and
\* detached snapshots and calling every mutating operation) and of tags.set
\* by two callers.
\* ---------------------------------------------------------------------------

RenameArgs == { [src |-> <<"f">>, dest |-> <<"g">>],
                [src |-> <<"d">>, dest |-> <<"g">>] }
TagApplyArgs == { [writes |-> <<W(<<"d", "f">>, 1)>>, removes |-> << <<"f">> >>] }

\* The caller of the read-only specification.
Caller == "w1"

NextReadOnly ==
    \/ Get(Caller)
    \/ GetTag(Caller)
    \/ \E c \in 1..MaxCommits : GetHash(Caller, c)
    \/ Adopt(Caller)
    \/ TagSetLookup(Caller)
    \/ TagSetCreate(Caller)
    \/ Budget /\ Write(Caller, <<"f">>, 1)
    \/ \E a \in TagApplyArgs : Budget /\ Apply(Caller, a)
    \/ Budget /\ Remove(Caller, <<"f">>, FALSE)
    \/ \E a \in RenameArgs : Budget /\ Rename(Caller, a.src, a.dest)
    \/ \E n \in 1..MaxSteps : MayLog /\ Undo(Caller, n)
    \/ \E n \in 1..MaxSteps : Budget /\ Redo(Caller, n)
    \/ BatchNew(Caller)
    \/ Budget /\ BatchCommit(Caller)
    \/ UrLock(Caller)
    \/ UrCheck(Caller)
    \/ UrSet(Caller)
    \/ Critical(Caller)

SpecReadOnly == Init /\ [][NextReadOnly]_vars

\* Two callers tag the commits they hold.
NextTags ==
    \/ \E w \in Writers : Get(w)
    \/ \E w \in Writers : GetTag(w)
    \/ \E w \in Writers : Adopt(w)
    \/ \E w \in Writers : TagSetLookup(w)
    \/ \E w \in Writers : TagSetCreate(w)
    \/ \E w \in Writers, v \in Values : Budget /\ Write(w, <<"f">>, v)
    \/ \E w \in Writers : Critical(w)

SpecTags == Init /\ [][NextTags]_vars

\* The operations that create a commit or move the branch.
MutatingCalls == {"write", "apply", "remove", "rename", "batch.commit", "undo", "redo"}

\* The snapshot a call made in this step runs on: the batch's for
\* Batch::commit, the caller's otherwise.
CalledOn(w) ==
    IF op'[w].kind = "batch.commit" \/ res'[w].call = "batch.commit"
    THEN batch[w].fs_ ELSE snap[w]

\* A mutating call is made by w in this step (a commit of a batch that is
\* already closed is refused before it reaches the snapshot).
Calls(w) ==
    /\ pc[w] = "idle"
    /\ \/ op'[w].kind \in MutatingCalls
       \/ res'[w] # res[w] /\ res'[w].call \in MutatingCalls
    /\ res'[w].status # "BatchClosedError"

\* The snapshot came from tags() ("v1") or from GitStore::fs(hash) (no ref).
FromTagOrHash(fs) == fs # NoFs /\ fs.ref_name \in {"v1", ""}

\* C11: every mutating operation (write, apply, remove, rename, batch commit,
\* undo, redo) called on a snapshot obtained from a tag or from a bare commit
\* hash ends at once with PermissionError and leaves every ref as it was; the
\* snapshots that are writable are bound to the branch.
C11_ReadOnlySnapshotsRefuse ==
    [][\A w \in Writers :
          /\ (Calls(w) /\ FromTagOrHash(CalledOn(w)))
                => /\ res'[w].status = "PermissionError"
                   /\ pc'[w] = "idle"
                   /\ refs' = refs
          /\ snap'[w].writable => snap'[w].ref_name = "main"]_vars

C11_Witness ==
    /\ batch[Caller].exists /\ batch[Caller].fs_.ref_name = "v1"
    /\ res[Caller].status = "PermissionError" /\ res[Caller].call = "batch.commit"
    /\ snap[Caller].ref_name = "" /\ snap[Caller].commit # 0
    /\ refs[TagRef] # refs[BranchRef]

\* C12: tags.set never changes the target of a tag that exists, whatever the
\* interleaving of the callers: a set on a taken name fails with
\* KeyExistsError.
C12_TagSetNeverOverwrites ==
    [][/\ refs[TagRef] # 0 => refs'[TagRef] = refs[TagRef]
       /\ \A w \in Writers :
            (pc[w] = "set_create" /\ refs[TagRef] # 0)
               => res'[w].status = "KeyExistsError"]_vars

\* Two callers set the absent tag v1 to different commits; both calls return
\* without an error and the tag ends at the commit of the second.
C12_BothSetsSucceed ==
    \E w \in Writers, x \in Writers :
        /\ res[w].call = "tags.set" /\ res[w].status = "ok"
        /\ res[x].call = "tags.set" /\ res[x].status = "ok"
        /\ res[w].fs.commit # res[x].fs.commit
        /\ refs[TagRef] = res[x].fs.commit

\* ---------------------------------------------------------------------------
\* Mirror: backup and restore (specification SpecMirror)
\* ---------------------------------------------------------------------------

\* The names of the references a RefMap holds, and the lookup of one name
\* (names outside the repository's namespace are never present).
RefDom(m) == {r \in RefNames : m[r] # 0}
HasRef(m, name) == name \in RefNames /\ m[name] # 0

\* diff_refs(src, dest): add = in src only, update = in both with different
\* ids, del = in dest only. A RefChange is (ref_name, old_target, new_target)
\* with 0 for no target.
diff_refs(src, dest) ==
    [add |-> {[ref_name |-> r, old_target |-> 0, new_target |-> src[r]] :
                 r \in {x \in RefDom(src) : dest[x] = 0}},
     update |-> {[ref_name |-> r, old_target |-> dest[r], new_target |-> src[r]] :
                 r \in {x \in RefDom(src) : dest[x] # 0 /\ dest[x] # src[x]}},
     del |-> {[ref_name |-> r, old_target |-> dest[r], new_target |-> 0] :
                 r \in RefDom(dest) \ RefDom(src)}]

\* MirrorDiff::in_sync
in_sync(diff) == diff.add = {} /\ diff.update = {} /\ diff.del = {}

\* Names a caller may put into opts.refs, and the test name.compare(0, 5,
\* "refs/") == 0 on them.
FilterNames == {"main", "v1", "refs/tags/v1"}
starts_with_refs(name) == name \in {"refs/tags/v1"}
RefPrefixes == <<"refs/heads/", "refs/tags/", "refs/notes/">>

\* The loop over the three prefixes of resolve_ref_names: the first candidate
\* present in available, refs/heads/<name> when there is none.
RECURSIVE FirstCandidate(_, _, _)
FirstCandidate(name, available, i) ==
    IF i > Len(RefPrefixes) THEN "refs/heads/" \o name
    ELSE IF HasRef(available, RefPrefixes[i] \o name) THEN RefPrefixes[i] \o name
    ELSE FirstCandidate(name, available, i + 1)

\* resolve_ref_names(names, available)
resolve_ref_names(names, available) ==
    {IF starts_with_refs(n) THEN n ELSE FirstCandidate(n, available, 1) : n \in names}

\* The RefMap "filtered" / "to_export" / "to_fetch" / "refs_to_import": all of
\* the source's references without a filter, else those the filter resolves to.
Selected(names, source) ==
    IF names = {} THEN RefDom(source)
    ELSE resolve_ref_names(names, source) \cap RefDom(source)

\* A push of the local references that deletes nothing on the remote.
mirror_push_no_delete(local_refs, remote_refs, dest) ==
    [r \in RefNames |-> IF local_refs[r] # 0 THEN local_refs[r] ELSE dest[r]]

\* mirror_push: +name:name for every local reference, :name for every
\* reference of the remote that is not local. The result is the remote's
\* reference table after the push.
mirror_push(local_refs, remote_refs, dest) ==
    [r \in RefNames |->
        IF local_refs[r] # 0 THEN local_refs[r]
        ELSE IF remote_refs[r] # 0 THEN 0
        ELSE dest[r]]

\* A push of the filtered references that also deletes what is not local.
targeted_push_with_deletes(local_refs, ref_filter, dest) ==
    [r \in RefNames |->
        IF r \in ref_filter /\ local_refs[r] # 0 THEN local_refs[r]
        ELSE IF local_refs[r] = 0 THEN 0
        ELSE dest[r]]

\* targeted_push: +name:name for every name of the filter that is a local
\* reference; nothing else is sent.
targeted_push(local_refs, ref_filter, dest) ==
    [r \in RefNames |->
        IF r \in ref_filter /\ local_refs[r] # 0 THEN local_refs[r] ELSE dest[r]]

\* A fetch that makes the local references equal to the fetched ones.
additive_fetch_exact(remote_refs, names, local) ==
    [r \in RefNames |->
        IF r \in Selected(names, remote_refs) THEN remote_refs[r] ELSE 0]

\* additive_fetch: +name:name for every selected reference of the remote. The
\* result is the local reference table after the fetch.
additive_fetch(remote_refs, names, local) ==
    [r \in RefNames |->
        IF r \in Selected(names, remote_refs) THEN remote_refs[r] ELSE local[r]]

\* bundle_export: the header of the bundle lists the selected references.
bundle_export(names, local_refs) ==
    [r \in RefNames |-> IF r \in Selected(names, local_refs) THEN local_refs[r] ELSE 0]

\* bundle_import: every selected reference of the bundle is created with
\* force = 1. The result is the local reference table after the import.
bundle_import(bundle_refs, names, local) ==
    [r \in RefNames |->
        IF r \in Selected(names, bundle_refs) THEN bundle_refs[r] ELSE local[r]]

\* diff_bundle_export: every selected local reference as an add.
diff_bundle_export(names, local_refs) ==
    [add |-> {[ref_name |-> r, old_target |-> 0, new_target |-> local_refs[r]] :
                 r \in Selected(names, local_refs)},
     update |-> {}, del |-> {}]

\* The add / update lists cut down to the names of the filter.
FilterChanges(changes, ref_filter) == {c \in changes : c.ref_name \in ref_filter}

\* diff_bundle_import: diff_refs(selected bundle references, local), del cleared.
diff_bundle_import(bundle_refs, names, local_refs) ==
    LET filtered == [r \in RefNames |->
                        IF r \in Selected(names, bundle_refs) THEN bundle_refs[r] ELSE 0]
    IN [diff_refs(filtered, local_refs) EXCEPT !.del = {}]

\* mirror::backup(inner, dest, opts), under the store mutex: to a bundle file
\* when use_bundle, else to the bare repository (created empty when missing).
Backup(w, names, dry_run, use_bundle) ==
    /\ pc[w] = "idle"
    /\ LET local_refs == refs
           remote_refs == mirror.dest
       IN IF use_bundle
          THEN IF ~dry_run /\ Selected(names, local_refs) = {}
               THEN /\ Finish(w, "GitError", NoFs, "backup")
                    /\ mirror' = [mirror EXCEPT !.diff = NoDiff]
               ELSE /\ Finish(w, "ok", NoFs, "backup")
                    /\ mirror' = [mirror EXCEPT
                                    !.diff = diff_bundle_export(names, local_refs),
                                    !.bundle = IF dry_run THEN @
                                               ELSE bundle_export(names, local_refs)]
          ELSE IF names # {}
          THEN LET ref_filter == resolve_ref_names(names, local_refs)
                   all == diff_refs(local_refs, remote_refs)
                   diff == [add |-> FilterChanges(all.add, ref_filter),
                            update |-> FilterChanges(all.update, ref_filter),
                            del |-> {}]
               IN /\ Finish(w, "ok", NoFs, "backup")
                  /\ mirror' = [mirror EXCEPT
                                  !.diff = diff,
                                  !.dest = IF ~dry_run /\ ~in_sync(diff)
                                           THEN targeted_push(local_refs, ref_filter, @)
                                           ELSE @]
          ELSE LET diff == diff_refs(local_refs, remote_refs)
               IN /\ Finish(w, "ok", NoFs, "backup")
                  /\ mirror' = [mirror EXCEPT
                                  !.diff = diff,
                                  !.dest = IF ~dry_run /\ ~in_sync(diff)
                                           THEN mirror_push(local_refs, remote_refs, @)
                                           ELSE @]
    /\ UNCHANGED <<trees, commits, refs, reflog, lock, snap, batch, hist, ret, retry>>

\* The local references after a fetch or an import: every reference that
\* moved is set, and branches and notes references log the move.
SetRefs(new_refs, message) ==
    /\ refs' = new_refs
    /\ reflog' = [r \in RefNames |->
                    IF r # TagRef /\ new_refs[r] # refs[r]
                    THEN <<[old |-> refs[r], new |-> new_refs[r], message |-> message]>>
                           \o reflog[r]
                    ELSE reflog[r]]

\* mirror::restore(inner, src, opts), under the store mutex: from a bundle
\* file when use_bundle (GitError when the file cannot be opened), else from
\* the bare repository.
Restore(w, names, dry_run, use_bundle) ==
    /\ pc[w] = "idle"
    /\ LET local_refs == refs
           remote_refs == mirror.dest
       IN IF use_bundle
          THEN IF mirror.bundle = NoRefs
               THEN /\ Finish(w, "GitError", NoFs, "restore")
                    /\ mirror' = [mirror EXCEPT !.diff = NoDiff]
                    /\ UNCHANGED <<refs, reflog>>
               ELSE /\ Finish(w, "ok", NoFs, "restore")
                    /\ mirror' = [mirror EXCEPT
                                    !.diff = diff_bundle_import(mirror.bundle, names,
                                                                local_refs)]
                    /\ IF dry_run THEN UNCHANGED <<refs, reflog>>
                       ELSE SetRefs(bundle_import(mirror.bundle, names, local_refs),
                                    <<"", "">>)
          ELSE LET all == diff_refs(remote_refs, local_refs)
                   ref_filter == resolve_ref_names(names, remote_refs)
                   diff == IF names # {}
                           THEN [add |-> FilterChanges(all.add, ref_filter),
                                 update |-> FilterChanges(all.update, ref_filter),
                                 del |-> {}]
                           ELSE [all EXCEPT !.del = {}]
               IN /\ Finish(w, "ok", NoFs, "restore")
                  /\ mirror' = [mirror EXCEPT !.diff = diff]
                  /\ IF ~dry_run /\ ~in_sync(diff)
                     THEN SetRefs(additive_fetch(remote_refs, names, local_refs),
                                  <<"fetch", "">>)
                     ELSE UNCHANGED <<refs, reflog>>
    /\ UNCHANGED <<trees, commits, lock, snap, batch, hist, ret, retry>>

\* RefDict::del("v1") on tags(), under the store mutex.
TagDel(w) ==
    /\ pc[w] = "idle"
    /\ MutexFree(w)
    /\ IF refs[TagRef] = 0
       THEN /\ Finish(w, "KeyNotFoundError", NoFs, "tags.del")
            /\ UNCHANGED refs
       ELSE /\ refs' = [refs EXCEPT ![TagRef] = 0]
            /\ Finish(w, "ok", NoFs, "tags.del")
    /\ UNCHANGED <<trees, commits, reflog, lock, snap, batch, hist, mirror, ret, retry>>

\* The ref filters given to backup and restore ({} is no filter).
MirrorFilters == {{}, {"main"}, {"v1"}, {"refs/tags/v1"}, {"main", "v1"}}

\* One caller writes, tags and deletes the tag, and backs the store up to, and
\* restores it from, a bare repository and a bundle file.
NextMirror ==
    \/ Get(Caller)
    \/ Len(commits) < MaxMirrorCommits /\ Budget /\ Write(Caller, <<"f">>, 1)
    \/ Critical(Caller)
    \/ TagSetLookup(Caller)
    \/ TagSetCreate(Caller)
    \/ TagDel(Caller)
    \/ \E f \in MirrorFilters, d \in BOOLEAN, b \in BOOLEAN : Backup(Caller, f, d, b)
    \/ \E f \in MirrorFilters, d \in BOOLEAN, b \in BOOLEAN :
          MayLog /\ Restore(Caller, f, d, b)

SpecMirror == Init /\ [][NextMirror]_vars

\* C18: after a non-dry-run backup to a bare repository without a ref filter,
\* the references of the remote equal the local ones (same names, same tip
\* ids): every local reference was pushed and every reference present only on
\* the remote was deleted; the local references are as before.
C18_BackupMirrorsRefs ==
    [][\A w \in Writers :
         (res'[w].call = "backup" /\ Backup(w, {}, FALSE, FALSE))
           => /\ mirror'.dest = refs
              /\ refs' = refs
              /\ \A r \in RefDom(mirror.dest) \ RefDom(refs) : mirror'.dest[r] = 0
              /\ {c.ref_name : c \in mirror'.diff.del} = RefDom(mirror.dest) \ RefDom(refs)]_vars

\* A full backup has brought a remote that held an older main and a tag
\* deleted locally since in line with the local references.
C18_Witness ==
    /\ res[Caller] = [status |-> "ok", fs |-> NoFs, call |-> "backup"]
    /\ \E c \in mirror.diff.del : c.ref_name = TagRef /\ c.old_target # 0
    /\ \E c \in mirror.diff.update :
          c.ref_name = BranchRef /\ c.new_target = refs[BranchRef]
    /\ refs[TagRef] = 0
    /\ mirror.dest = refs

\* C19: a backup with a ref filter leaves every reference of the remote
\* outside the resolved filter as it was (neither deleted nor moved), and the
\* diff it reports has no deletes. (Only a step that changes the remote or
\* reports a delete has to be compared with the backup calls.)
C19_FilteredBackupFrame ==
    [][\A w \in Writers :
         (res'[w].call = "backup"
            /\ (mirror'.dest # mirror.dest \/ mirror'.diff.del # {}))
           => \A f \in MirrorFilters \ {{}}, d \in BOOLEAN :
                /\ Backup(w, f, d, FALSE)
                     => /\ \A r \in RefNames \ resolve_ref_names(f, refs) :
                              mirror'.dest[r] = mirror.dest[r]
                        /\ mirror'.diff.del = {}
                /\ Backup(w, f, d, TRUE) => mirror'.diff.del = {}]_vars

\* A backup of main alone has moved main on a remote that holds a tag deleted
\* locally since; the tag is still on the remote.
C19_Witness ==
    /\ res[Caller] = [status |-> "ok", fs |-> NoFs, call |-> "backup"]
    /\ \E c \in mirror.diff.update :
          c.ref_name = BranchRef /\ c.new_target = refs[BranchRef]
    /\ mirror.diff.del = {}
    /\ refs[TagRef] = 0 /\ mirror.dest[TagRef] # 0
    /\ mirror.dest[BranchRef] = refs[BranchRef]

\* C20: restore never deletes a local reference, with or without a ref filter
\* and from a repository as from a bundle: every name that is a local
\* reference before restore is one afterwards, and the diff it reports has no
\* deletes. (Only a step that changes the local references or reports a
\* delete has to be compared with the restore calls.)
C20_RestoreIsAdditive ==
    [][\A w \in Writers :
         (res'[w].call = "restore" /\ (refs' # refs \/ mirror'.diff.del # {}))
           => \A f \in MirrorFilters, d \in BOOLEAN, b \in BOOLEAN :
                Restore(w, f, d, b)
                  => /\ RefDom(refs) \subseteq RefDom(refs')
                     /\ mirror'.diff.del = {}]_vars

\* A restore without a filter from a repository that lacks the local tag and
\* holds an older main: main is back at the remote's commit, the tag is kept.
C20_Witness ==
    /\ res[Caller] = [status |-> "ok", fs |-> NoFs, call |-> "restore"]
    /\ \E c \in mirror.diff.update :
          /\ c.ref_name = BranchRef
          /\ c.new_target = mirror.dest[BranchRef]
          /\ c.old_target # refs[BranchRef]
    /\ mirror.diff.del = {}
    /\ refs[BranchRef] = mirror.dest[BranchRef]
    /\ refs[TagRef] # 0 /\ mirror.dest[TagRef] = 0

\* ---------------------------------------------------------------------------
\* retry_write (specification SpecRetry)
\* ---------------------------------------------------------------------------

\* A loop that allows one more retry.
max_retries_six == 5 + 1

\* constexpr int max_retries
max_retries == 5

\* std::min
std_min(a, b) == IF a < b THEN a ELSE b

\* delay_ms = std::min(10 * (1 << attempt), 200)
delay_ms(attempt) == std_min(10 * (2 ^ attempt), 200)

\* What one call of the closure f() may do: return, or throw
\* StaleSnapshotError or another error.
ClosureOutcomes == {"ok", "StaleSnapshotError", "NotFoundError"}

\* retry_write(f) is entered: attempt = 0.
RetryStart(w) ==
    /\ pc[w] = "idle"
    /\ ~retry[w].active
    /\ retry' = [retry EXCEPT ![w] = [active |-> TRUE, attempt |-> 0, calls |-> 0,
                                      slept |-> <<>>, status |-> "running"]]
    /\ UNCHANGED <<trees, commits, refs, reflog, lock, pc, snap, op, res, batch, hist,
                   mirror, ret>>

\* One turn of the loop: f() is called; its value is returned, an error other
\* than StaleSnapshotError leaves through the try block, StaleSnapshotError is
\* rethrown when attempt >= max_retries and followed by a sleep otherwise.
RetryCall(w, outcome) ==
    /\ retry[w].active
    /\ LET r == [retry[w] EXCEPT !.calls = @ + 1]
       IN retry' = [retry EXCEPT ![w] =
            IF outcome = "ok"
            THEN [r EXCEPT !.active = FALSE, !.status = "ok"]
            ELSE IF outcome # "StaleSnapshotError"
            THEN [r EXCEPT !.active = FALSE, !.status = outcome]
            ELSE IF r.attempt >= max_retries
            THEN [r EXCEPT !.active = FALSE, !.status = "StaleSnapshotError"]
            ELSE [r EXCEPT !.slept = Append(@, delay_ms(r.attempt)),
                           !.attempt = @ + 1]]
    /\ UNCHANGED <<trees, commits, refs, reflog, lock, pc, snap, op, res, batch, hist,
                   mirror, ret>>

NextRetry ==
    \/ \E w \in Writers : RetryStart(w)
    \/ \E w \in Writers, o \in ClosureOutcomes : RetryCall(w, o)

SpecRetry == Init /\ [][NextRetry]_vars

\* The sleep before the call number k + 1, in milliseconds.
Backoff(k) == IF 10 * (2 ^ (k - 1)) < 200 THEN 10 * (2 ^ (k - 1)) ELSE 200

\* C21: retry_write calls the closure at most six times in all. After a
\* stale-snapshot failure of one of the first five calls it sleeps
\* min(10 * 2^attempt, 200) ms and calls again; the stale-snapshot failure of
\* the sixth call is rethrown; any other error is passed on at once, and a
\* value is returned at once.
C21_RetryAtMostSix ==
    [][\A w \in Writers :
         /\ retry'[w].calls <= 6
         /\ \A o \in ClosureOutcomes :
              RetryCall(w, o)
                => LET k == retry[w].calls + 1
                   IN /\ retry'[w].calls = k
                      /\ IF o = "StaleSnapshotError" /\ k < 6
                         THEN /\ retry'[w].active
                              /\ retry'[w].slept = Append(retry[w].slept, Backoff(k))
                         ELSE /\ ~retry'[w].active
                              /\ retry'[w].status = o
                              /\ retry'[w].slept = retry[w].slept]_vars

\* The sixth call has failed with StaleSnapshotError after five sleeps, and
\* the error has been rethrown.
C21_Witness ==
    \E w \in Writers :
        /\ ~retry[w].active
        /\ retry[w].status = "StaleSnapshotError"
        /\ retry[w].calls = 6
        /\ retry[w].slept = <<10, 20, 40, 80, 160>>

\* ---------------------------------------------------------------------------
\* The repository lock (specifications SpecLock and SpecLockFair)
\* ---------------------------------------------------------------------------

\* Positions at which a caller polls flock(LOCK_EX | LOCK_NB), and positions
\* inside fn(), between the FlockGuard's construction and its destruction.
LockWaitPcs == {"cc_lock", "ur_lock", "n_lock"}
InsidePcs == {"cc_check", "cc_build", "cc_ref", "ur_check", "ur_set", "n_commit"}

\* with_repo_lock gives up: the deadline of 30 s has passed while another
\* caller holds the lock; the descriptor is closed and VostError is thrown.
LockTimeout(w) ==
    /\ pc[w] \in LockWaitPcs
    /\ lock # "none"
    /\ Finish(w, "VostError", NoFs, op[w].kind)
    /\ UNCHANGED <<trees, commits, refs, reflog, lock, snap, batch, hist, mirror, ret,
                   retry>>

\* An error exit that leaves the lock file locked.
CriticalThrow_keeps_lock(w) ==
    /\ pc[w] \in {"cc_build", "cc_ref", "ur_set", "n_commit"}
    /\ Finish(w, "GitError", NoFs, op[w].kind)
    /\ UNCHANGED <<trees, commits, refs, reflog, lock, snap, batch, hist, mirror, ret,
                   retry>>

\* A libgit2 call inside fn() fails (throw_git / throw_git_error in
\* rebuild_tree, write_commit, the commit lookup or the reference update):
\* GitError unwinds through the FlockGuard, whose destructor unlocks.
CriticalThrow(w) ==
    /\ pc[w] \in {"cc_build", "cc_ref", "ur_set", "n_commit"}
    /\ Finish(w, "GitError", NoFs, op[w].kind)
    /\ lock' = "none"
    /\ UNCHANGED <<trees, commits, refs, reflog, snap, batch, hist, mirror, ret, retry>>

\* The steps of fn(), the body run with the lock held.
Inside(w) ==
    \/ CcCheck(w)
    \/ \E t \in 0..MaxTime : CcBuild(w, t)
    \/ CcUpdateRef(w)
    \/ UrCheck(w)
    \/ UrSet(w)
    \/ \E t \in 0..MaxTime : commit_note_tree(w, t)
    \/ CriticalThrow(w)

LockNoteKey == "aa01"

NextLock ==
    \/ \E w \in Writers, v \in Values : Once(w) /\ Write(w, <<"f">>, v)
    \/ \E w \in Writers : Once(w) /\ Undo(w, 1)
    \/ \E w \in Writers, t \in NoteTexts : Once(w) /\ NoteSet(w, LockNoteKey, t)
    \/ \E w \in Writers : NoteBuild(w)
    \/ \E w \in Writers : CcLock(w)
    \/ \E w \in Writers : UrLock(w)
    \/ \E w \in Writers : NoteLock(w)
    \/ \E w \in Writers : LockTimeout(w)
    \/ \E w \in Writers : Inside(w)

\* Each of the two writers makes one call (a write, an undo or a note) on the
\* snapshot it holds.
SpecLock == InitCAS /\ [][NextLock]_vars

\* A thread that holds the lock is running fn() and is not blocked there.
SpecLockFair == SpecLock /\ \A w \in Writers : WF_vars(Inside(w))

\* C22: the repository lock is released on every way out of the critical
\* section (return, stale-snapshot failure, any other error): a caller that
\* is not inside the section does not hold the lock, and whenever the lock
\* is held it becomes free again for the next writer.
C22_LockReleasedOnExit ==
    /\ [](\A w \in Writers : pc[w] \notin InsidePcs => lock # w)
    /\ (lock # "none") ~> (lock = "none")

\* One writer has left the critical section through an error that is not a
\* stale snapshot, and the other writer holds the lock after it.
C22_Witness ==
    \E w \in Writers, v \in Writers :
        /\ v # w
        /\ pc[w] = "idle"
        /\ res[w].status = "GitError"
        /\ lock = v

\* C23: at most one writer is inside a repository-lock critical section at
\* any time.
C23_OneWriterInside ==
    Cardinality({w \in Writers : pc[w] \in InsidePcs}) <= 1

\* One writer is inside the critical section while the other waits for the
\* lock.
C23_Witness ==
    \E w \in Writers, v \in Writers :
        /\ pc[w] \in InsidePcs
        /\ lock = w
        /\ pc[v] \in LockWaitPcs

\* ---------------------------------------------------------------------------
\* Rename (specification SpecRename)
\* ---------------------------------------------------------------------------

\* Arguments of rename: a file and a directory to a fresh name, to a path
\* below the source, onto an existing directory, and a file to its parent.
RenameCases == { [src |-> <<"f">>, dest |-> <<"g">>],
                 [src |-> <<"d">>, dest |-> <<"g">>],
                 [src |-> <<"f">>, dest |-> <<"d">>],
                 [src |-> <<"f">>, dest |-> <<"f", "g">>],
                 [src |-> <<"d">>, dest |-> <<"d", "g">>],
                 [src |-> <<"d", "f">>, dest |-> <<"d">>] }

NextRename ==
    \/ \E w \in Writers : Get(w)
    \/ \E w \in Writers, p \in WritePaths : Budget /\ Write(w, p, 1)
    \/ \E w \in Writers, a \in RenameCases : Budget /\ Rename(w, a.src, a.dest)
    \/ \E w \in Writers : Critical(w)

SpecRename == Init /\ [][NextRename]_vars

\* Paths of up to three segments, and the prefix relation on paths.
PathsToDepth3 == UNION { [1..k -> Names] : k \in 1..3 }
IsPrefixOf(a, b) == Len(a) <= Len(b) /\ SubSeq(b, 1, Len(a)) = a
IsLeafEntry(e) == e.mode # 0 /\ e.mode # MODE_TREE

\* The rename of src to dest by w is committed in this step.
RenameCommitted(w, a) ==
    /\ pc[w] = "cc_ref"
    /\ op[w].kind = "rename"
    /\ op[w].message = <<"rename:", ToString(<<a.src, a.dest>>)>>
    /\ res'[w].status = "ok"

\* C24: a successful rename(src, dest) with src existing, dest # src and
\* neither the root adds exactly one commit to the branch; every leaf that was
\* at or under src is at the rewritten dest path with the same bytes and
\* mode; and src no longer exists.
C24_RenameMoves ==
    [][\A w \in Writers, a \in RenameCases :
         RenameCommitted(w, a)
           => /\ refs'[BranchRef] # refs[BranchRef]
              /\ parent_oid(refs'[BranchRef]) = refs[BranchRef]
              /\ Len(reflog'[BranchRef]) = Len(reflog[BranchRef]) + 1
              /\ \A p \in PathsToDepth3 :
                   (IsPrefixOf(a.src, p)
                      /\ IsLeafEntry(entry_at_path(trees[op[w].fs.tree], p)))
                     => entry_at_path(trees[res'[w].fs.tree],
                                      a.dest \o SubSeq(p, Len(a.src) + 1, Len(p)))
                          = entry_at_path(trees[op[w].fs.tree], p)
              /\ entry_at_path(trees[res'[w].fs.tree], a.src).mode = 0]_vars

\* rename("f", "f/g") has returned a snapshot in which f still exists (as the
\* directory that holds the moved file).
C24_SourceStillExists ==
    \E w \in Writers :
        /\ res[w].status = "ok"
        /\ res[w].call = "rename"
        /\ commits[res[w].fs.commit].message
             = <<"rename:", ToString(<< <<"f">>, <<"f", "g">> >>)>>
        /\ entry_at_path(trees[res[w].fs.tree], <<"f">>).mode = MODE_TREE
        /\ IsLeafEntry(entry_at_path(trees[res[w].fs.tree], <<"f", "g">>))

\* ---------------------------------------------------------------------------
\* sync_in (specification SpecSync)
\* ---------------------------------------------------------------------------

\* Relative paths of the files a source directory on disk may hold, in the
\* sorted order disk_walk returns them; a directory on disk maps each of them
\* to the content of the file, 0 when the file is absent.
DiskRel == << <<"f">>, <<"g">> >>
DiskDirs == { [f |-> 1, g |-> 0], [f |-> 2, g |-> 1], [f |-> 0, g |-> 0] }
DiskData(src, rel) == IF rel[1] \in DOMAIN src THEN src[rel[1]] ELSE 0

\* copy::disk_walk: the files below the directory, sorted.
disk_walk(src) ==
    LET OnDisk(rel) == DiskData(src, rel) # 0 IN SelectSeq(DiskRel, OnDisk)

\* SyncOptions: exclude patterns (file names without wildcards), checksum.
SyncOpts == { [exclude |-> {}, checksum |-> TRUE, dry_run |-> FALSE],
              [exclude |-> {"g"}, checksum |-> TRUE, dry_run |-> FALSE],
              [exclude |-> {}, checksum |-> FALSE, dry_run |-> FALSE] }

\* copy::matches_filters without include patterns: a pattern without
\* wildcards matches the file name (the last segment) or the whole path.
matches_filters(rel, exclude) ==
    \A pat \in exclude : rel[Len(rel)] # pat /\ rel # <<pat>>

\* tree::walk_tree(repo, tree_oid_hex, norm_path): norm_path is looked up in
\* the given tree, and the leaves below it are returned prefixed with it.
walk_tree_at(t, norm_path) ==
    IF norm_path = <<>> THEN [status |-> "ok", entries |-> walk_tree(t, <<>>, 1)]
    ELSE LET entry == entry_at_path(t, norm_path)
         IN IF entry.mode = 0 THEN [status |-> "NotFoundError", entries |-> <<>>]
            ELSE IF entry.mode # MODE_TREE
            THEN [status |-> "NotADirectoryError", entries |-> <<>>]
            ELSE [status |-> "ok", entries |-> walk_tree(entry.sub, norm_path, 1)]

\* The walk of the existing entries that passes the subtree of dest together
\* with the root tree, which then looks dest up in the root.
SyncExisting_from_root(root, dest_norm) ==
    LET entry == lookup(root, dest_norm)
    IN IF dest_norm = <<>> \/ entry.mode = MODE_TREE
       THEN walk_tree_at(root, dest_norm)
       ELSE [status |-> "ok", entries |-> <<>>]

\* sync_in, the walk of the existing entries: sub_tree is the root tree, the
\* tree at dest, or nothing; walk_tree is called with sub_tree and dest_norm.
SyncExisting(root, dest_norm) ==
    LET entry == lookup(root, dest_norm)
    IN IF dest_norm = <<>> THEN walk_tree_at(root, dest_norm)
       ELSE IF entry.mode = MODE_TREE THEN walk_tree_at(entry.sub, dest_norm)
       ELSE [status |-> "ok", entries |-> <<>>]

\* key = rel_path.substr(dest_norm.size() + 1)
SyncKey(segs, dest_norm) ==
    IF dest_norm # <<>> /\ Len(segs) > Len(dest_norm)
    THEN SubSeq(segs, Len(dest_norm) + 1, Len(segs)) ELSE segs

\* Fs::sync_in(src, dest, opts)
SyncIn(w, src, dest, opts) ==
    /\ CanStart(w)
    /\ LET fs == snap[w]
           walked == SyncExisting(trees[fs.tree], dest)
           existing == [k \in 1..Len(walked.entries) |->
                          [walked.entries[k] EXCEPT !.segs = SyncKey(@, dest)]]
           Existing(rel) == \E k \in 1..Len(existing) : existing[k].segs = rel
           EntryOf(rel) == existing[CHOOSE k \in 1..Len(existing) : existing[k].segs = rel]
           FilteredIn(rel) == matches_filters(rel, opts.exclude)
           disk_set == SelectSeq(disk_walk(src), FilteredIn)
           Changed(rel) ==
               ~(opts.checksum /\ Existing(rel)
                   /\ EntryOf(rel).data = DiskData(src, rel)
                   /\ EntryOf(rel).mode = MODE_BLOB)
           written == SelectSeq(disk_set, Changed)
           writes == [k \in 1..Len(written) |->
                        W(dest \o written[k], DiskData(src, written[k]))]
           Gone(x) == (\A k \in 1..Len(disk_set) : disk_set[k] # x.segs)
                        /\ FilteredIn(x.segs)
           gone == SelectSeq(existing, Gone)
           removes == [k \in 1..Len(gone) |-> dest \o gone[k].segs]
           report == [add |-> {writes[k].segs : k \in {j \in 1..Len(writes) :
                                                        ~Existing(written[j])}},
                      update |-> {writes[k].segs : k \in {j \in 1..Len(writes) :
                                                           Existing(written[j])}},
                      del |-> {removes[k] : k \in 1..Len(removes)}]
       IN IF ~require_writable(fs)
          THEN Finish(w, "PermissionError", NoFs, "sync_in") /\ UNCHANGED ret
          ELSE IF walked.status # "ok"
          THEN Finish(w, walked.status, NoFs, "sync_in") /\ UNCHANGED ret
          ELSE /\ ret' = [ret EXCEPT ![w] =
                            [call |-> "sync_in",
                             args |-> [fs |-> fs, src |-> src, dest |-> dest, opts |-> opts],
                             value |-> report]]
               /\ IF opts.dry_run \/ (writes = <<>> /\ removes = <<>>)
                  THEN Finish(w, "ok", fs, "sync_in")
                  ELSE commit_changes(w, fs, writes, removes, <<"sync_in", "">>, "sync_in")
    /\ UNCHANGED <<trees, commits, refs, reflog, lock, snap, batch, hist, mirror, retry>>

SyncDests == {<<>>, <<"d">>, <<"g">>}
SyncWritePaths == {<<"f">>, <<"d", "g">>, <<"d", "d", "f">>}

NextSync ==
    \/ Get(Caller)
    \/ \E p \in SyncWritePaths : Budget /\ Write(Caller, p, 1)
    \/ \E src \in DiskDirs, dest \in SyncDests, opts \in SyncOpts :
         Budget /\ SyncIn(Caller, src, dest, opts)
    \/ Critical(Caller)

SpecSync == Init /\ [][NextSync]_vars

\* Relative paths of up to two segments: the leaves that may lie under dest.
RelPaths == UNION { [1..k -> Names] : k \in 1..2 }
LeavesUnder(t, dest) == {rel \in RelPaths : IsLeafEntry(entry_at_path(t, dest \o rel))}

\* sync_in has returned without an error and was not a dry run.
SyncReturned(w) ==
    /\ pc[w] = "idle"
    /\ res[w].call = "sync_in"
    /\ res[w].status = "ok"
    /\ ret[w].call = "sync_in"
    /\ ~ret[w].args.opts.dry_run

\* C25: after a successful sync_in(src, dest) that is not a dry run, every
\* filtered-in leaf of the snapshot under dest that is not a file of src is
\* removed and listed in the report's deletes, and the filtered-in leaves
\* under dest are exactly the filtered-in files of src; for every dest,
\* a dest that names an existing directory with entries included.
C25_SyncMirrorsDisk ==
    \A w \in Writers :
        SyncReturned(w)
          => LET a == ret[w].args
                 old == trees[a.fs.tree]
                 new == trees[res[w].fs.tree]
                 OnDisk(rel) == Len(rel) = 1 /\ DiskData(a.src, rel) # 0
                 In(rel) == matches_filters(rel, a.opts.exclude)
             IN /\ \A rel \in LeavesUnder(old, a.dest) :
                       (In(rel) /\ ~OnDisk(rel))
                         => /\ rel \notin LeavesUnder(new, a.dest)
                            /\ (a.dest \o rel) \in ret[w].value.del
                /\ {rel \in LeavesUnder(new, a.dest) : In(rel)}
                     = {rel \in RelPaths : OnDisk(rel) /\ In(rel)}

\* sync_in into the existing directory d has returned, and a leaf of d that
\* is not on disk is still in the snapshot.
C25_LeafNotRemoved ==
    \E w \in Writers :
        /\ SyncReturned(w)
        /\ ret[w].args.dest = <<"d">>
        /\ LeavesUnder(trees[ret[w].args.fs.tree], <<"d">>) # {}
        /\ \E rel \in LeavesUnder(trees[res[w].fs.tree], <<"d">>) :
               ~(Len(rel) = 1 /\ DiskData(ret[w].args.src, rel) # 0)
                 /\ matches_filters(rel, ret[w].args.opts.exclude)

\* ---------------------------------------------------------------------------
\* Queries on a snapshot: log, exists, is_dir, parent, back
\* (specification SpecQuery)
\* ---------------------------------------------------------------------------

\* An optional that is not set (std::nullopt) for limit and skip; an optional
\* path that is not set.
None == -1
NoPath == <<"">>

\* Fs::empty: the snapshot without commit and tree.
FsEmpty(w) ==
    /\ pc[w] = "idle"
    /\ snap[w] # Fs(0, 0, "main", TRUE)
    /\ snap' = [snap EXCEPT ![w] = Fs(0, 0, "main", TRUE)]
    /\ UNCHANGED <<trees, commits, refs, reflog, lock, pc, op, res, batch, hist, mirror,
                   ret, retry>>

\* The path filter of log: the entry at the path differs (id or mode) between
\* the commit and its first parent; in a root commit, the entry exists.
log_path_matches(c, norm_path) ==
    LET this_entry == lookup(trees[tree_oid_for_commit(c)], norm_path)
        p == parent_oid(c)
        parent_entry == lookup(trees[tree_oid_for_commit(p)], norm_path)
    IN IF p # 0
       THEN IF this_entry.mode # 0 /\ parent_entry.mode # 0
            THEN ~(this_entry.data = parent_entry.data
                     /\ this_entry.sub = parent_entry.sub
                     /\ this_entry.mode = parent_entry.mode)
            ELSE ~(this_entry.mode = 0 /\ parent_entry.mode = 0)
       ELSE this_entry.mode # 0

\* The filters of log other than skip and limit.
log_matches(c, opts) == opts.path = NoPath \/ log_path_matches(c, opts.path)

\* The while loop of Fs::log: cur_hex walks the first parents; a matching
\* commit is skipped while skipped < skip, otherwise pushed, and the loop
\* breaks when the results have reached the limit.
RECURSIVE LogLoop(_, _, _, _)
LogLoop(cur_hex, skipped, results, opts) ==
    IF cur_hex = 0 THEN results
    ELSE IF ~log_matches(cur_hex, opts)
    THEN LogLoop(parent_oid(cur_hex), skipped, results, opts)
    ELSE IF opts.skip # None /\ skipped < opts.skip
    THEN LogLoop(parent_oid(cur_hex), skipped + 1, results, opts)
    ELSE LET pushed == Append(results, cur_hex)
         IN IF opts.limit # None /\ Len(pushed) >= opts.limit
            THEN pushed
            ELSE LogLoop(parent_oid(cur_hex), skipped, pushed, opts)

\* Fs::log(opts): the commit hashes of the CommitInfo entries returned.
log(fs, opts) == IF fs.commit = 0 THEN <<>> ELSE LogLoop(fs.commit, 0, <<>>, opts)

LogOptions == [limit : {None, 0, 1, 2}, skip : {None, 0, 1}, path : {NoPath, <<"f">>}]

Log(w, opts) ==
    /\ CanStart(w)
    /\ ret' = [ret EXCEPT ![w] = [call |-> "log", args |-> [fs |-> snap[w], opts |-> opts],
                                  value |-> log(snap[w], opts)]]
    /\ UNCHANGED <<trees, commits, refs, reflog, lock, pc, snap, op, res, batch, hist,
                   mirror, retry>>

\* Fs::exists(path) and Fs::is_dir(path) for a normalized path.
exists(fs, norm) ==
    IF fs.tree = 0 THEN FALSE
    ELSE IF norm = <<>> THEN TRUE
    ELSE lookup(trees[fs.tree], norm).mode # 0

is_dir(fs, norm) ==
    IF fs.tree = 0 THEN FALSE
    ELSE IF norm = <<>> THEN TRUE
    ELSE LET entry == lookup(trees[fs.tree], norm)
         IN IF entry.mode = 0 THEN FALSE ELSE entry.mode = MODE_TREE

QueryPaths == {<<>>, <<"f">>, <<"d">>, <<"d", "f">>, <<"f", "g">>, <<"g">>}

Exists(w, path) ==
    /\ CanStart(w)
    /\ ret' = [ret EXCEPT ![w] = [call |-> "exists", args |-> [fs |-> snap[w], path |-> path],
                                  value |-> exists(snap[w], path)]]
    /\ UNCHANGED <<trees, commits, refs, reflog, lock, pc, snap, op, res, batch, hist,
                   mirror, retry>>

IsDir(w, path) ==
    /\ CanStart(w)
    /\ ret' = [ret EXCEPT ![w] = [call |-> "is_dir", args |-> [fs |-> snap[w], path |-> path],
                                  value |-> is_dir(snap[w], path)]]
    /\ UNCHANGED <<trees, commits, refs, reflog, lock, pc, snap, op, res, batch, hist,
                   mirror, retry>>

\* Fs::parent: the snapshot of the first parent, NoFs for std::nullopt.
parent(fs) ==
    IF fs.commit = 0 THEN NoFs
    ELSE IF parent_oid(fs.commit) = 0 THEN NoFs
    ELSE Fs(parent_oid(fs.commit), tree_oid_for_commit(parent_oid(fs.commit)),
            fs.ref_name, fs.writable)

\* The for loop of Fs::back.
RECURSIVE BackLoop(_, _, _)
BackLoop(cur, i, n) ==
    IF i >= n THEN [status |-> "ok", fs |-> cur]
    ELSE IF parent(cur) = NoFs THEN [status |-> "NotFoundError", fs |-> NoFs]
    ELSE BackLoop(parent(cur), i + 1, n)

\* A back that stops one parent early.
back_short(fs, n) == BackLoop(fs, 0, IF n > 1 THEN n - 1 ELSE n)

\* Fs::back(n)
back(fs, n) == BackLoop(fs, 0, n)

Parent(w) ==
    /\ CanStart(w)
    /\ ret' = [ret EXCEPT ![w] = [call |-> "parent", args |-> [fs |-> snap[w]],
                                  value |-> parent(snap[w])]]
    /\ UNCHANGED <<trees, commits, refs, reflog, lock, pc, snap, op, res, batch, hist,
                   mirror, retry>>

Back(w, n) ==
    /\ CanStart(w)
    /\ ret' = [ret EXCEPT ![w] = [call |-> "back", args |-> [fs |-> snap[w], n |-> n],
                                  value |-> back(snap[w], n)]]
    /\ UNCHANGED <<trees, commits, refs, reflog, lock, pc, snap, op, res, batch, hist,
                   mirror, retry>>

\* One caller writes, picks snapshots (branch tip, any commit, the empty
\* snapshot) and queries them.
NextQuery ==
    \/ Get(Caller)
    \/ \E c \in 1..MaxCommits : GetHash(Caller, c)
    \/ FsEmpty(Caller)
    \/ \E p \in WritePaths, v \in Values : Budget /\ Write(Caller, p, v)
    \/ Critical(Caller)
    \/ \E opts \in LogOptions : Log(Caller, opts)
    \/ \E path \in QueryPaths : Exists(Caller, path)
    \/ \E path \in QueryPaths : IsDir(Caller, path)
    \/ Parent(Caller)
    \/ \E n \in 0..MaxCommits : Back(Caller, n)

SpecQuery == Init /\ [][NextQuery]_vars

\* The first-parent chain of a commit, most recent first.
RECURSIVE FirstParents(_)
FirstParents(c) == IF c = 0 THEN <<>> ELSE <<c>> \o FirstParents(parent_oid(c))

\* C26: log() returns the commits of the first-parent chain, most recent
\* first; with skip = s and limit = l it returns exactly the commits at
\* positions s + 1 .. s + l of the sequence of the commits that match the
\* other filters, and never more than l entries, for every l >= 0.
C26_LogSkipLimit ==
    \A w \in Writers :
        ret[w].call = "log"
          => LET a == ret[w].args
                 Matches(c) == log_matches(c, a.opts)
                 matching == SelectSeq(FirstParents(a.fs.commit), Matches)
                 s == IF a.opts.skip = None THEN 0 ELSE a.opts.skip
                 last == IF a.opts.limit = None \/ s + a.opts.limit > Len(matching)
                         THEN Len(matching) ELSE s + a.opts.limit
             IN /\ ret[w].value = SubSeq(matching, s + 1, last)
                /\ a.opts.limit # None => Len(ret[w].value) <= a.opts.limit

\* log with limit = 0 has returned an entry.
C26_LimitZeroReturnsOne ==
    \E w \in Writers :
        /\ ret[w].call = "log"
        /\ ret[w].args.opts.limit = 0
        /\ Len(ret[w].value) = 1

\* C27: on every snapshot, the empty snapshot without a commit included,
\* exists("") and is_dir("") are true, and exists and is_dir return false
\* (and do not raise) for every well-formed path that is absent.
C27_RootExistsAbsentIsFalse ==
    \A w \in Writers :
        ret[w].call \in {"exists", "is_dir"}
          => LET a == ret[w].args
                 absent == a.path # <<>>
                             /\ (a.fs.tree = 0
                                   \/ entry_at_path(trees[a.fs.tree], a.path).mode = 0)
             IN /\ ret[w].value \in BOOLEAN
                /\ a.path = <<>> => ret[w].value = TRUE
                /\ absent => ret[w].value = FALSE

\* exists("") has returned false on the empty snapshot.
C27_RootMissingOnEmpty ==
    \E w \in Writers :
        /\ ret[w].call = "exists"
        /\ ret[w].args.fs = Fs(0, 0, "main", TRUE)
        /\ ret[w].args.path = <<>>
        /\ ret[w].value = FALSE

\* The number of ancestors of a snapshot's commit along first parents.
Ancestors(fs) == IF fs.commit = 0 THEN 0 ELSE Len(FirstParents(fs.commit)) - 1

\* C29: on a snapshot with at least n ancestors back(n) returns the snapshot
\* of the commit that n applications of parent() reach; with fewer than n
\* ancestors back(n) fails with the not-found error.
C29_BackIsParentNTimes ==
    \A w \in Writers :
        ret[w].call = "back"
          => LET a == ret[w].args
             IN IF Ancestors(a.fs) >= a.n
                THEN /\ ret[w].value.status = "ok"
                     /\ ret[w].value.fs.commit = NthParent(a.fs.commit, a.n)
                     /\ a.n > 0 => ret[w].value.fs.tree
                                     = tree_oid_for_commit(NthParent(a.fs.commit, a.n))
                ELSE ret[w].value.status = "NotFoundError"

\* back(2) has returned the snapshot of the grandparent commit.
C29_Witness ==
    \E w \in Writers :
        /\ ret[w].call = "back"
        /\ ret[w].args.n = 2
        /\ ret[w].value.status = "ok"
        /\ ret[w].value.fs.commit # 0
        /\ ret[w].value.fs.commit = parent_oid(parent_oid(ret[w].args.fs.commit))

\* ---------------------------------------------------------------------------
\* Writing what is already there (specification SpecRewrite)
\* ---------------------------------------------------------------------------

\* Writes given to apply: two files of one directory, one of them again, a
\* file at the root, and the same bytes as a symlink.
RewriteApplyArgs ==
    { [writes |-> <<W(<<"d", "f">>, 1), W(<<"d", "g">>, 2)>>, removes |-> <<>>],
      [writes |-> <<W(<<"d", "g">>, 2)>>, removes |-> <<>>],
      [writes |-> <<W(<<"f">>, 1)>>, removes |-> <<>>],
      [writes |-> <<[segs |-> <<"f">>, data |-> 1, mode |-> MODE_LINK]>>, removes |-> <<>>] }

NextRewrite ==
    \/ Get(BatchOwner)
    \/ \E p \in WritePaths, v \in Values : Budget /\ Write(BatchOwner, p, v)
    \/ \E a \in RewriteApplyArgs : Budget /\ Apply(BatchOwner, a)
    \/ BatchNew(BatchOwner)
    \/ \E p \in WritePaths, v \in Values : BatchWrite(BatchOwner, p, v)
    \/ (batch[BatchOwner].closed_ \/ Budget) /\ BatchCommit(BatchOwner)
    \/ Critical(BatchOwner)

SpecRewrite == Init /\ [][NextRewrite]_vars

\* Every write of the operation names a path whose entry in the snapshot's
\* tree already has these bytes and this mode, and nothing is removed.
WritesWhatIsThere(o) ==
    /\ o.kind \in {"write", "apply", "batch.commit"}
    /\ o.writes # <<>>
    /\ o.removes = <<>>
    /\ o.fs.tree # 0
    /\ \A k \in 1..Len(o.writes) :
         LET e == entry_at_path(trees[o.fs.tree], o.writes[k].segs)
         IN e.mode = o.writes[k].mode /\ e.data = o.writes[k].data

\* C28: a write, apply or batch commit whose files all have the content and
\* mode of the existing entries at their paths returns a snapshot whose
\* tree_hash equals the tree_hash of the snapshot written to, and still
\* creates a new commit on top of it.
C28_SameWriteSameTree ==
    [][\A w \in Writers :
         (pc[w] = "cc_ref" /\ res'[w].status = "ok" /\ WritesWhatIsThere(op[w]))
           => /\ res'[w].fs.tree = op[w].fs.tree
              /\ res'[w].fs.commit # op[w].fs.commit
              /\ parent_oid(res'[w].fs.commit) = op[w].fs.commit
              /\ refs'[BranchRef] = res'[w].fs.commit]_vars

\* A batch that rewrote an existing file has been committed: new commit, same
\* tree.
C28_Witness ==
    \E w \in Writers :
        /\ res[w].status = "ok"
        /\ res[w].call = "batch.commit"
        /\ batch[w].writes_ # <<>>
        /\ parent_oid(res[w].fs.commit) = batch[w].fs_.commit
        /\ res[w].fs.tree = batch[w].fs_.tree

\* ---------------------------------------------------------------------------
\* The tree rebuilder as a function (specification SpecRebuild)
\* ---------------------------------------------------------------------------

\* Base trees, and lists of up to two writes and up to two removes, each list
\* without a repeated path.
RebuildPaths == {<<"f">>, <<"d">>, <<"d", "f">>, <<"d", "g">>, <<"d", "d">>}
RebuildPairs == {x \in RebuildPaths \X RebuildPaths : x[1] # x[2]}
RebuildBases ==
    { EmptyTree,
      rebuild(EmptyTree, <<>>, <<W(<<"f">>, 2)>>, <<>>),
      rebuild(EmptyTree, <<>>, <<W(<<"d", "f">>, 2), W(<<"d", "g">>, 2)>>, <<>>),
      rebuild(EmptyTree, <<>>, <<W(<<"f">>, 2), W(<<"d", "f">>, 2),
                                 W(<<"d", "g">>, 2)>>, <<>>),
      rebuild(EmptyTree, <<>>, <<W(<<"f">>, 2), W(<<"d", "d", "f">>, 2),
                                 W(<<"d", "g">>, 2)>>, <<>>) }
RebuildRemoves ==
    {<<>>} \cup { <<p>> : p \in RebuildPaths }
           \cup { <<x[1], x[2]>> : x \in RebuildPairs }
RebuildWrites ==
    {<<>>} \cup { <<W(p, 1)>> : p \in RebuildPaths }
           \cup { <<W(x[1], 1), W(x[2], 1)>> : x \in RebuildPairs }

\* One call of tree::rebuild_tree; no path is both written and removed.
Rebuild(w, base_tree, writes, removes) ==
    /\ pc[w] = "idle"
    /\ \A i \in 1..Len(writes), j \in 1..Len(removes) : writes[i].segs # removes[j]
    /\ ret' = [ret EXCEPT ![w] =
                 [call |-> "rebuild_tree",
                  args |-> [base_tree |-> base_tree, writes |-> writes, removes |-> removes],
                  value |-> rebuild_tree(base_tree, writes, removes)]]
    /\ UNCHANGED <<trees, commits, refs, reflog, lock, pc, snap, op, res, batch, hist,
                   mirror, retry>>

\* The function is called once in a behaviour: its value depends on its
\* arguments alone.
NextRebuild ==
    \E b \in RebuildBases, ws \in RebuildWrites, rs \in RebuildRemoves :
        ret[Caller] = NoRet /\ Rebuild(Caller, b, ws, rs)

SpecRebuild == Init /\ [][NextRebuild]_vars

\* The orderings of a list of at most two entries.
Orderings(s) == IF Len(s) = 2 THEN {s, <<s[2], s[1]>>} ELSE {s}

\* C30: the tree returned by the rebuilder does not depend on the order of
\* the entries within writes or within removes (nor on how a write and a
\* remove at different paths are ordered), also when one of the paths is an
\* ancestor directory of the other.
C30_RebuildOrderIndependent ==
    \A w \in Writers :
        ret[w].call = "rebuild_tree"
          => \A ws \in Orderings(ret[w].args.writes), rs \in Orderings(ret[w].args.removes) :
                 rebuild_tree(ret[w].args.base_tree, ws, rs) = ret[w].value

\* Removing d and d/f from a tree that holds d/f and d/g gives another tree
\* than removing d/f and d.
C30_RemoveOrderMatters ==
    \E w \in Writers :
        /\ ret[w].call = "rebuild_tree"
        /\ ret[w].args.writes = <<>>
        /\ ret[w].args.removes = << <<"d">>, <<"d", "f">> >>
        /\ entry_at_path(ret[w].args.base_tree, <<"d", "g">>).mode = MODE_BLOB
        /\ ret[w].value
             # rebuild_tree(ret[w].args.base_tree, <<>>, << <<"d", "f">>, <<"d">> >>)

\* ---------------------------------------------------------------------------
\* A snapshot copy that is never re-fetched (specification SpecStaleCopy):
\* both writers hold the snapshot of the tip; the caller keeps its copy for
\* every write it makes, the other writer writes, adopts and undoes.
\* ---------------------------------------------------------------------------

Mover == "w2"

\* One more commit than the bound of the general specification: a write, its
\* undo and a write on the older copy, from either initial branch.
CopyBudget == Len(commits) + InFlight <= MaxCommits /\ HistoryLog

NextStaleCopy ==
    \/ \E p \in WritePaths, v \in Values : CopyBudget /\ Write(Caller, p, v)
    \/ \E v \in Values : CopyBudget /\ Write(Mover, <<"f">>, v)
    \/ Get(Mover)
    \/ Adopt(Mover)
    \/ \E n \in 1..MaxSteps : HistoryLog /\ Undo(Mover, n)
    \/ \E w \in Writers : UrLock(w)
    \/ \E w \in Writers : UrCheck(w)
    \/ \E w \in Writers : UrSet(w)
    \/ \E w \in Writers : Critical(w)

SpecStaleCopy == InitCAS /\ [][NextStaleCopy]_vars

\* A write has advanced the branch from the commit of the snapshot: the reflog
\* of the branch holds an entry, not of undo or redo, whose old id is that
\* commit.
AdvancedFrom(fs) ==
    \E i \in 1..Len(reflog[BranchRef]) :
        /\ reflog[BranchRef][i].old = fs.commit
        /\ ~IsUndoRedo(reflog[BranchRef][i].message)

\* A write of the caller succeeds in this step.
CallerWriteSucceeds ==
    /\ pc[Caller] = "cc_ref" /\ pc'[Caller] = "idle"
    /\ res'[Caller].status = "ok"

\* C31 as stated: a snapshot copy made before a write that advanced the branch
\* is never the base of a later successful write unless it is re-fetched,
\* whatever the later history of the branch, an undo back to the copy's commit
\* included.
C31_StaleCopyNeverBase ==
    [][CallerWriteSucceeds => ~AdvancedFrom(op[Caller].fs)]_vars

\* C31: a snapshot copy made before a write that advanced the branch is the
\* base of a later successful write only when the branch tip is the copy's
\* commit again, as after an undo back to that commit: the newest reflog
\* entry then ends at the copy's commit. While the tip differs from the
\* copy's commit the write fails.
C31_StaleCopyBaseOnlyAtTip ==
    [][(CallerWriteSucceeds /\ AdvancedFrom(op[Caller].fs))
         => /\ refs[BranchRef] = op[Caller].fs.commit
            /\ reflog[BranchRef][1].new = op[Caller].fs.commit
            /\ parent_oid(refs'[BranchRef]) = op[Caller].fs.commit]_vars

\* The other writer advanced the branch from the caller's copy and undid it;
\* the caller's write on the copy, never re-fetched, then succeeded.
C31_Witness ==
    /\ pc[Caller] = "idle" /\ res[Caller].status = "ok"
    /\ Len(reflog[BranchRef]) >= 3
    /\ reflog[BranchRef][1].old = snap[Caller].commit
    /\ reflog[BranchRef][1].new = res[Caller].fs.commit
    /\ reflog[BranchRef][2].message[1] = "undo:"
    /\ reflog[BranchRef][2].new = snap[Caller].commit
    /\ reflog[BranchRef][3].old = snap[Caller].commit
    /\ reflog[BranchRef][3].message[1] = "write:"
    /\ parent_oid(refs[BranchRef]) = snap[Caller].commit

\* ---------------------------------------------------------------------------
\* Branch references set and deleted through RefDict, and restored
\* (specification SpecRefDict)
\* ---------------------------------------------------------------------------

\* RefDict::set("main", fs) on branches(): the snapshot must have a commit;
\* under the mutex of the caller's own handle the reference is created with
\* force = 1 and the reflog message "refdict: set". The repository lock is
\* not taken.
BranchSet(w) ==
    /\ CanStart(w)
    /\ IF snap[w].commit = 0
       THEN /\ Finish(w, "GitError", NoFs, "branches.set")
            /\ UNCHANGED <<refs, reflog>>
       ELSE /\ SetRef(BranchRef, snap[w].commit, <<"refdict:", "set">>)
            /\ Finish(w, "ok", NoFs, "branches.set")
    /\ UNCHANGED <<trees, commits, lock, snap, batch, hist, mirror, ret, retry>>

\* RefDict::del("main") on branches(): under the mutex the reference is
\* looked up and deleted, and its reflog with it. The repository lock is not
\* taken.
BranchDel(w) ==
    /\ pc[w] = "idle"
    /\ IF refs[BranchRef] = 0
       THEN /\ Finish(w, "KeyNotFoundError", NoFs, "branches.del")
            /\ UNCHANGED <<refs, reflog>>
       ELSE /\ refs' = [refs EXCEPT ![BranchRef] = 0]
            /\ reflog' = [reflog EXCEPT ![BranchRef] = <<>>]
            /\ Finish(w, "ok", NoFs, "branches.del")
    /\ UNCHANGED <<trees, commits, lock, snap, batch, hist, mirror, ret, retry>>

\* The caller writes through the commit engine; the other writer, on its own
\* handle, sets and deletes the branch and backs up to, and restores from, a
\* bare repository.
NextRefDict ==
    \/ \E w \in Writers : Get(w)
    \/ Adopt(Caller)
    \/ \E v \in Values : Budget /\ Write(Caller, <<"f">>, v)
    \/ Critical(Caller)
    \/ MayLog /\ BranchSet(Mover)
    \/ BranchDel(Mover)
    \/ Backup(Mover, {}, FALSE, FALSE)
    \/ MayLog /\ Restore(Mover, {}, FALSE, FALSE)

SpecRefDict == Init /\ [][NextRefDict]_vars

\* The writer is between its stale-snapshot check and its ref update.
CheckedNotUpdated(w) == pc[w] \in {"cc_build", "cc_ref"}

\* C32: every update or deletion of the branch reference (by the commit
\* engine, by RefDict set / del and by restore) is made by the holder of the
\* repository lock, and the branch does not change between a writer's
\* stale-snapshot check and its own ref update.
C32_BranchRefChangesUnderLock ==
    [][/\ refs'[BranchRef] # refs[BranchRef] => lock # "none"
       /\ \A w \in Writers :
             (CheckedNotUpdated(w) /\ pc'[w] = pc[w])
                => refs'[BranchRef] = refs[BranchRef]]_vars

\* The caller's write returned successfully, yet the commit it put on the
\* branch does not descend from the tip it replaced: the other handle set the
\* branch after the caller's check, and that update is lost.
C32_UpdateLost ==
    /\ pc[Caller] = "idle" /\ res[Caller].status = "ok" /\ res[Caller].call = "write"
    /\ refs[BranchRef] = res[Caller].fs.commit
    /\ reflog[BranchRef][1].new = refs[BranchRef]
    /\ reflog[BranchRef][1].old # 0
    /\ reflog[BranchRef][1].old # parent_oid(refs[BranchRef])
    /\ Len(reflog[BranchRef]) >= 2
    /\ reflog[BranchRef][2].message = <<"refdict:", "set">>

\* The commit engine of w makes its check / its ref update in this step while
\* refs/heads/main does not exist and the snapshot has a commit.
CheckWithoutBranch(w) ==
    pc[w] = "cc_check" /\ pc'[w] # "cc_check"
      /\ refs[BranchRef] = 0 /\ op[w].fs.commit # 0
UpdateWithoutBranch(w) ==
    pc[w] = "cc_ref" /\ pc'[w] # "cc_ref"
      /\ refs[BranchRef] = 0 /\ op[w].fs.commit # 0

\* C33: when refs/heads/main does not exist as a writable snapshot with a
\* commit reaches the commit engine, the stale-snapshot check does not fail,
\* and the commit succeeds by creating the branch at the new commit, whose
\* parent is the snapshot's commit.
C33_AbsentBranchIsCreated ==
    [][\A w \in Writers :
          /\ CheckWithoutBranch(w) => pc'[w] = "cc_build"
          /\ UpdateWithoutBranch(w) =>
                /\ res'[w].status = "ok"
                /\ refs'[BranchRef] = res'[w].fs.commit
                /\ refs'[BranchRef] # 0
                /\ commits[refs'[BranchRef]].parents = <<op[w].fs.commit>>
                /\ reflog'[BranchRef][1].old = 0]_vars

\* The branch was deleted after the caller took its snapshot; the caller's
\* write then succeeded and created the branch at a commit whose parent is
\* the snapshot's commit.
C33_Witness ==
    /\ pc[Caller] = "idle" /\ res[Caller].status = "ok" /\ res[Caller].call = "write"
    /\ res[Mover].call = "branches.del" /\ res[Mover].status = "ok"
    /\ refs[BranchRef] = res[Caller].fs.commit
    /\ snap[Caller].commit # 0
    /\ parent_oid(refs[BranchRef]) = snap[Caller].commit
    /\ Len(reflog[BranchRef]) = 1 /\ reflog[BranchRef][1].old = 0

\* The paths staged by a call of the rebuilder, and the staged paths that lie
\* strictly under a path.
StagedPaths(args) ==
    {args.writes[i].segs : i \in 1..Len(args.writes)}
      \cup {args.removes[j] : j \in 1..Len(args.removes)}
StagedUnder(args, p) == {q \in StagedPaths(args) : q # p /\ IsPrefixOf(p, q)}

\* The removes of the call name a directory of the base tree, and nothing
\* else is staged at or under it.
RemovesWholeDirectory(args, p) ==
    /\ Contains(args.removes, p)
    /\ entry_at_path(args.base_tree, p).mode = MODE_TREE
    /\ StagedUnder(args, p) = {}

\* C34: when the removes hold a directory path and no staged write or remove
\* lies under it, the resulting tree has no entry at that path (so nothing at
\* or under it exists), and every path that no staged path is at, above or
\* under has the entry it had in the base tree.
C34_DirectoryRemoveDropsEntry ==
    \A w \in Writers :
        ret[w].call = "rebuild_tree"
          => \A p \in RebuildPaths :
                RemovesWholeDirectory(ret[w].args, p)
                  => /\ \A q \in PathsToDepth3 :
                           IsPrefixOf(p, q) => entry_at_path(ret[w].value, q).mode = 0
                     /\ \A q \in PathsToDepth3 :
                           (\A s \in StagedPaths(ret[w].args) : ~Related(q, s))
                             => entry_at_path(ret[w].value, q)
                                  = entry_at_path(ret[w].args.base_tree, q)

\* The nested directory d/d, holding d/d/f, was removed by naming it: d/d and
\* d/d/f are gone, d/g and f are as before.
C34_Witness ==
    \E w \in Writers :
        /\ ret[w].call = "rebuild_tree"
        /\ ret[w].args.removes = << <<"d", "d">> >>
        /\ ret[w].args.writes = <<>>
        /\ entry_at_path(ret[w].args.base_tree, <<"d", "d", "f">>).mode = MODE_BLOB
        /\ entry_at_path(ret[w].value, <<"d", "d">>).mode = 0
        /\ entry_at_path(ret[w].value, <<"d", "d", "f">>).mode = 0
        /\ entry_at_path(ret[w].value, <<"d", "g">>).mode = MODE_BLOB
        /\ entry_at_path(ret[w].value, <<"f">>).mode = MODE_BLOB

\* The writes of a call that lie strictly under a path.
WritesUnder(args, p) ==
    {i \in 1..Len(args.writes) :
        args.writes[i].segs # p /\ IsPrefixOf(p, args.writes[i].segs)}

\* C35: when one call removes a directory and also writes a path under it,
\* the directory of the result holds exactly the leaves written by the call:
\* every leaf under it is one of the writes, with the bytes written, and no
\* previous entry of the directory is left.
C35_RemovedDirectoryHoldsOnlyWrites ==
    \A w \in Writers :
        ret[w].call = "rebuild_tree"
          => \A p \in RebuildPaths :
                (/\ Contains(ret[w].args.removes, p)
                 /\ entry_at_path(ret[w].args.base_tree, p).mode = MODE_TREE
                 /\ WritesUnder(ret[w].args, p) # {})
                  => \A q \in PathsToDepth3 :
                        (q # p /\ IsPrefixOf(p, q))
                          => LET e == entry_at_path(ret[w].value, q) IN
                             IF \E i \in WritesUnder(ret[w].args, p) :
                                   ret[w].args.writes[i].segs = q
                             THEN e.mode = MODE_BLOB /\ e.data = 1
                             ELSE ~IsLeafEntry(e)

\* d held d/f and d/g; the call removed d and wrote d/f: the result still
\* holds the old d/g beside the new d/f.
C35_OldEntrySurvives ==
    \E w \in Writers :
        /\ ret[w].call = "rebuild_tree"
        /\ ret[w].args.removes = << <<"d">> >>
        /\ ret[w].args.writes = <<W(<<"d", "f">>, 1)>>
        /\ entry_at_path(ret[w].args.base_tree, <<"d", "g">>) = BlobEntry(2, MODE_BLOB)
        /\ entry_at_path(ret[w].value, <<"d", "f">>) = BlobEntry(1, MODE_BLOB)
        /\ entry_at_path(ret[w].value, <<"d", "g">>) = BlobEntry(2, MODE_BLOB)

\* ---------------------------------------------------------------------------
\* Undo and redo repeated on a history of three commits (specification
\* SpecRedoChain): the branch after GitStore::open, write f = 1 and
\* write f = 2; the caller holds the snapshot of its tip.
\* ---------------------------------------------------------------------------

InitChain ==
    /\ trees = <<EmptyTree,
                 rebuild_tree(EmptyTree, <<W(<<"f">>, 1)>>, <<>>),
                 rebuild_tree(EmptyTree, <<W(<<"f">>, 2)>>, <<>>)>>
    /\ commits = <<write_commit(1, 0, <<"Initialize", "main">>, 0),
                   write_commit(2, 1, <<"write:", ToString(<<"f">>)>>, 0),
                   write_commit(3, 2, <<"write:", ToString(<<"f">>)>>, 0)>>
    /\ refs = [r \in RefNames |-> IF r = BranchRef THEN 3 ELSE 0]
    /\ reflog = [r \in RefNames |->
                   IF r = BranchRef
                   THEN <<[old |-> 2, new |-> 3, message |-> <<"write:", ToString(<<"f">>)>>],
                          [old |-> 1, new |-> 2, message |-> <<"write:", ToString(<<"f">>)>>],
                          [old |-> 0, new |-> 1,
                           message |-> <<"commit (initial):", "Initialize main">>]>>
                   ELSE <<>>]
    /\ lock = "none"
    /\ InitLocals
    /\ snap = [w \in Writers |-> Fs(3, 3, "main", TRUE)]

RedoLog == Len(reflog[BranchRef]) + InFlight < MaxRedoLog

NextRedoChain ==
    \/ Adopt(Caller)
    \/ \E n \in 1..MaxSteps : RedoLog /\ Undo(Caller, n)
    \/ \E n \in 1..MaxSteps : RedoLog /\ Redo(Caller, n)
    \/ UrLock(Caller)
    \/ UrCheck(Caller)
    \/ UrSet(Caller)

SpecRedoChain == InitChain /\ [][NextRedoChain]_vars

\* The i-th newest reflog entry of the branch records an undo / a redo of n
\* steps.
IsUndoEntry(i, n) ==
    i <= Len(reflog[BranchRef]) /\ reflog[BranchRef][i].message = <<"undo:", ToString(n)>>
IsRedoEntry(i, n) ==
    i <= Len(reflog[BranchRef]) /\ reflog[BranchRef][i].message = <<"redo:", ToString(n)>>

\* The newest entries below position i are two successive undo(1), the older
\* one starting from commit c, with no write before them undone already.
TwoUndosFrom(i, c) ==
    /\ IsUndoEntry(i, 1) /\ IsUndoEntry(i + 1, 1)
    /\ reflog[BranchRef][i + 1].old = c
    /\ reflog[BranchRef][i].old = reflog[BranchRef][i + 1].new
    /\ \A j \in (i + 2)..Len(reflog[BranchRef]) :
          ~IsUndoRedo(reflog[BranchRef][j].message)

\* C36: after two successive undo(1) starting from commit C and no other
\* write, two successive redo(1) leave the branch at C, and so does a single
\* redo(2).
C36_RedoComposes ==
    \A c \in 1..Len(commits) :
        /\ (IsRedoEntry(1, 1) /\ IsRedoEntry(2, 1) /\ TwoUndosFrom(3, c))
              => refs[BranchRef] = c
        /\ (IsRedoEntry(1, 2) /\ TwoUndosFrom(2, c)) => refs[BranchRef] = c

\* undo(1), undo(1), redo(1), redo(1) from commit 3: the second redo took the
\* branch back to commit 1, the state the second undo had produced.
C36_SecondRedoGoesBack ==
    /\ IsRedoEntry(1, 1) /\ IsRedoEntry(2, 1) /\ TwoUndosFrom(3, 3)
    /\ pc[Caller] = "idle" /\ res[Caller].status = "ok" /\ res[Caller].call = "redo"
    /\ refs[BranchRef] = 1
    /\ reflog[BranchRef][1] = [old |-> 2, new |-> 1, message |-> <<"redo:", "1">>]

\* Every undo has been redone: the newest reflog entry is a redo(1) that
\* reversed the undo(1) recorded just below it, and no older entry is of undo
\* or redo.
AllRedone ==
    /\ IsRedoEntry(1, 1) /\ IsUndoEntry(2, 1)
    /\ reflog[BranchRef][1].old = reflog[BranchRef][2].new
    /\ reflog[BranchRef][1].new = reflog[BranchRef][2].old
    /\ \A j \in 3..Len(reflog[BranchRef]) : ~IsUndoRedo(reflog[BranchRef][j].message)

\* The caller calls redo(1) in this step: the call goes on to the lock, or
\* returns an error from its reflog scan.
RedoOneCalled ==
    /\ pc[Caller] = "idle"
    /\ \/ pc'[Caller] = "ur_lock" /\ op'[Caller].kind = "redo" /\ op'[Caller].n = 1
       \/ /\ pc'[Caller] = "idle" /\ res'[Caller] # res[Caller]
          /\ res'[Caller].call = "redo" /\ res'[Caller].status # "ok"

\* C37: once every undo has been redone (undo(1) followed by redo(1)), a
\* further redo(1) on the snapshot of the tip fails with NotFoundError and
\* leaves the branch where it is: redo never takes the branch back to an
\* undone state.
C37_RedoStopsWhenAllRedone ==
    [][(AllRedone /\ snap[Caller].commit = refs[BranchRef] /\ RedoOneCalled)
         => /\ pc'[Caller] = "idle"
            /\ res'[Caller].status = "NotFoundError"
            /\ refs' = refs]_vars

\* undo(1), redo(1), redo(1) from commit 3: the second redo succeeded and put
\* the branch at commit 2, the state the undo had produced.
C37_RedoUndoesAgain ==
    /\ pc[Caller] = "idle" /\ res[Caller].status = "ok" /\ res[Caller].call = "redo"
    /\ Len(reflog[BranchRef]) = 6
    /\ reflog[BranchRef][1] = [old |-> 3, new |-> 2, message |-> <<"redo:", "1">>]
    /\ reflog[BranchRef][2] = [old |-> 2, new |-> 3, message |-> <<"redo:", "1">>]
    /\ reflog[BranchRef][3] = [old |-> 3, new |-> 2, message |-> <<"undo:", "1">>]
    /\ refs[BranchRef] = 2
    /\ res[Caller].fs.commit = 2

\* ---------------------------------------------------------------------------
\* A batch whose commit fails (specification SpecBatchFail): the batch is
\* taken on a snapshot of the branch, which the other writer may overtake, or
\* on a detached read-only snapshot.
\* ---------------------------------------------------------------------------

NextBatchFail ==
    \/ \E w \in Writers : Get(w)
    \/ \E c \in 1..MaxCommits : GetHash(BatchOwner, c)
    \/ \E w \in Writers \ {BatchOwner}, v \in Values : Spare /\ Write(w, <<"f">>, v)
    \/ BatchNew(BatchOwner)
    \/ \E v \in Values : BatchWrite(BatchOwner, <<"f">>, v)
    \/ (batch[BatchOwner].closed_ \/ Budget) /\ BatchCommit(BatchOwner)
    \/ \E w \in Writers : Critical(w)

SpecBatchFail == Init /\ [][NextBatchFail]_vars

CommitFailures == {"StaleSnapshotError", "PermissionError"}

\* The commit() of w returns one of the two failures in this step.
BatchCommitFails(w) ==
    /\ res'[w] # res[w]
    /\ res'[w].call = "batch.commit" /\ res'[w].status \in CommitFailures

\* commit() is called on the batch of w whose last commit() failed.
BatchCommitAgain(w) ==
    /\ pc[w] = "idle"
    /\ res[w].call = "batch.commit" /\ res[w].status \in CommitFailures
    /\ \/ res'[w] # res[w] /\ res'[w].call = "batch.commit"
       \/ pc'[w] = "cc_lock" /\ op'[w].kind = "batch.commit"

\* C38: a batch is closed only by a commit() that succeeded: when commit()
\* fails with StaleSnapshotError or PermissionError the batch is still open,
\* and the next commit() on it does not fail with BatchClosedError.
C38_FailedCommitLeavesBatchOpen ==
    [][\A w \in Writers :
          /\ BatchCommitFails(w) => ~batch'[w].closed_
          /\ BatchCommitAgain(w) => res'[w].status # "BatchClosedError"]_vars

\* The other writer overtook the batch, whose commit() failed; the second
\* commit() failed with BatchClosedError, and no commit of the batch exists.
C38_ClosedAfterFailure ==
    /\ pc[BatchOwner] = "idle"
    /\ res[BatchOwner] = [status |-> "BatchClosedError", fs |-> NoFs, call |-> "batch.commit"]
    /\ batch[BatchOwner].closed_ /\ batch[BatchOwner].engine_calls = 1
    /\ batch[BatchOwner].fs_.writable
    /\ refs[BranchRef] # batch[BatchOwner].fs_.commit
    /\ \A c \in 1..Len(commits) : commits[c].message[1] # "batch:"

\* ---------------------------------------------------------------------------
\* Directories emptied by removes (specification SpecPrune): one caller
\* writes files in d and at the top, removes them one by one and asks
\* exists() of the snapshots returned.
\* ---------------------------------------------------------------------------

PrunePaths == {<<"f">>, <<"d", "f">>, <<"d", "g">>}

NextPrune ==
    \/ Get(Caller)
    \/ Adopt(Caller)
    \/ \E p \in PrunePaths : Budget /\ Write(Caller, p, 1)
    \/ \E p \in PrunePaths : Budget /\ Remove(Caller, p, FALSE)
    \/ Critical(Caller)
    \/ \E path \in QueryPaths : Exists(Caller, path)

SpecPrune == Init /\ [][NextPrune]_vars

\* Some leaf lies at or under the path in the tree.
HasLeafUnder(t, p) ==
    \E q \in PathsToDepth3 : IsPrefixOf(p, q) /\ IsLeafEntry(entry_at_path(t, q))

\* C39: no tree written by the rebuilder holds an entry for an empty subtree,
\* and exists(d) is false on a snapshot in which no leaf is left at or under
\* d.
C39_NoEmptySubtree ==
    /\ \A t \in 1..Len(trees), q \in PathsToDepth3 :
          LET e == entry_at_path(trees[t], q) IN
          e.mode = MODE_TREE => e.sub # EmptyTree
    /\ \A w \in Writers :
          (/\ ret[w].call = "exists"
           /\ ret[w].args.fs.tree # 0 /\ ret[w].args.path # <<>>
           /\ ~HasLeafUnder(trees[ret[w].args.fs.tree], ret[w].args.path))
            => ret[w].value = FALSE

\* d/f, the only file of d, was removed: the snapshot returned holds d as an
\* empty directory and exists("d") answered true on it.
C39_EmptyDirectoryLeft ==
    /\ pc[Caller] = "idle" /\ res[Caller].status = "ok" /\ res[Caller].call = "remove"
    /\ snap[Caller] = res[Caller].fs
    /\ entry_at_path(trees[snap[Caller].tree], <<"d">>) = TreeEntry(EmptyTree)
    /\ ret[Caller] = [call |-> "exists", args |-> [fs |-> snap[Caller], path |-> <<"d">>],
                      value |-> TRUE]

\* ---------------------------------------------------------------------------
\* Two branches, a tag and the notes reference (specification SpecFrame): one
\* caller creates the branch dev from a snapshot, tags a snapshot, and
\* writes, undoes and redoes on either branch.
\* ---------------------------------------------------------------------------

\* RefDict::get("dev") on branches(): a writable snapshot of the tip of dev.
GetDev(w) ==
    /\ pc[w] = "idle"
    /\ refs[DevRef] # 0
    /\ snap[w] # Fs(refs[DevRef], tree_oid_for_commit(refs[DevRef]), "dev", TRUE)
    /\ snap' = [snap EXCEPT ![w] =
                  Fs(refs[DevRef], tree_oid_for_commit(refs[DevRef]), "dev", TRUE)]
    /\ UNCHANGED <<trees, commits, refs, reflog, lock, pc, op, res, batch, hist, mirror, ret, retry>>

\* RefDict::set("dev", fs) on branches(): refs/heads/dev is created or moved
\* (force = 1) with the reflog message "refdict: set".
DevSet(w) ==
    /\ CanStart(w)
    /\ IF snap[w].commit = 0
       THEN /\ Finish(w, "GitError", NoFs, "branches.set")
            /\ UNCHANGED <<refs, reflog>>
       ELSE /\ SetRef(DevRef, snap[w].commit, <<"refdict:", "set">>)
            /\ Finish(w, "ok", NoFs, "branches.set")
    /\ UNCHANGED <<trees, commits, lock, snap, batch, hist, mirror, ret, retry>>

\* Room for one more commit and one more reflog entry on the two branches.
FrameBudget ==
    /\ Len(commits) + InFlight < MaxHistory
    /\ Len(reflog[BranchRef]) + Len(reflog[DevRef]) + InFlight < MaxHistory

NextFrame ==
    \/ Get(Caller)
    \/ GetDev(Caller)
    \/ Adopt(Caller)
    \/ FrameBudget /\ DevSet(Caller)
    \/ TagSetLookup(Caller)
    \/ TagSetCreate(Caller)
    \/ FrameBudget /\ Write(Caller, <<"f">>, 1)
    \/ \E n \in 1..MaxSteps : FrameBudget /\ Undo(Caller, n)
    \/ \E n \in 1..MaxSteps : FrameBudget /\ Redo(Caller, n)
    \/ UrLock(Caller)
    \/ UrCheck(Caller)
    \/ UrSet(Caller)
    \/ Critical(Caller)

SpecFrame == InitNotes /\ [][NextFrame]_vars

\* A commit, undo or redo of w returns successfully in this step.
EngineSucceeds(w) ==
    /\ pc[w] \in {"cc_ref", "ur_set"} /\ pc'[w] = "idle"
    /\ res'[w].status = "ok"

\* C40: a successful commit, undo or redo on a snapshot of branch A changes
\* the target of refs/heads/A only: the other branch, the tag and the notes
\* reference keep theirs.
C40_OnlyOwnBranchMoves ==
    [][\A w \in Writers :
          EngineSucceeds(w)
            => \A r \in RefNames :
                  r # "refs/heads/" \o op[w].fs.ref_name => refs'[r] = refs[r]]_vars

\* An undo on dev has returned: dev is at its result, while main, the tag
\* and the notes reference each hold another target of their own.
C40_Witness ==
    /\ pc[Caller] = "idle" /\ res[Caller].status = "ok" /\ res[Caller].call = "undo"
    /\ res[Caller].fs.ref_name = "dev"
    /\ refs[DevRef] = res[Caller].fs.commit
    /\ reflog[DevRef][1].message[1] = "undo:"
    /\ refs[BranchRef] \notin {0, refs[DevRef]}
    /\ refs[TagRef] # 0
    /\ refs[NotesRef] # 0

====
